---------------------------- MODULE Spec2Model ----------------------------
(***************************************************************************)
(* The reminder scheduling and deduplication engine of discord-reminder:   *)
(* the three job bodies of ReminderScheduler (daily summary, hour-before   *)
(* check, announcement check), the store they share (users, linked         *)
(* accounts, the sent_reminders ledger), the SQLAlchemy session each run   *)
(* works through, and the two provider clients they fetch with.            *)
(*                                                                         *)
(* Every await of a job body is one step of the task running it, so runs   *)
(* interleave exactly where the event loop can switch tasks.  External     *)
(* outcomes (a fetch raising, a page answered with a non-200 status, a     *)
(* recipient refusing the message, a persistence call raising) are chosen  *)
(* nondeterministically at the step that makes the call.                   *)
(***************************************************************************)
EXTENDS Naturals, Integers, Sequences, FiniteSets, Bags, TLC

VARIABLES
    users,            \* rows of table users: set of discord_user_id
    google_accounts,  \* rows of table google_accounts: id -> row
    canvas_accounts,  \* rows of table canvas_accounts: id -> row
    sent_reminders,   \* rows of table sent_reminders: a bag (no unique key)
    delivered,        \* bag of (user, kind, key): messages the Notifier accepted
    issued,           \* number of access tokens the provider has issued by refresh
    now,              \* the clock, in minutes
    today,            \* the calendar day, as a day number
    run,              \* task -> the state of the job run it executes
    runs,             \* number of job runs started so far
    call,             \* the last call of the calendar client and its outcome
    cmd,              \* command task -> the state of the slash command it handles
    cmds,             \* number of slash commands received so far
    pending_oauth_states  \* module dict of link_commands: state token -> user id

vars == <<users, google_accounts, canvas_accounts, sent_reminders, delivered,
          issued, now, today, run, runs, call, cmd, cmds, pending_oauth_states>>

(***************************************************************************)
(* Bounds of the model.                                                    *)
(***************************************************************************)
MaxRuns  == 2     \* job runs started in one behaviour
MaxDay   == 1     \* day changes in one behaviour
MaxRot   == 1     \* token refreshes the provider answers in one behaviour

\* The tasks that can execute job bodies at the same time.
Tasks == {1, 2}

\* the interactions the bot can be handling at the same time
CmdTasks == {1, 2}

(***************************************************************************)
(* Program constants (src/config.py, src/integrations/google_calendar.py). *)
(***************************************************************************)
REMINDER_DAYS_AHEAD         == 7
ANNOUNCEMENT_CHECK_INTERVAL == 30
HOUR_BEFORE_CHECK_INTERVAL == 5
RefreshMarginMinutes        == 5
AnnouncementSlackMinutes    == 5
MinutesPerHour              == 60
MinutesPerDay               == 1440

\* Python's None, for a time and for a token
NoTime  == 0 - 1
NoToken == <<>>

(***************************************************************************)
(* The world outside the program: the provider's calendars and courses.    *)
(* A calendar is a sequence of result pages; times are minutes.            *)
(***************************************************************************)
GoogleCalendar ==
    [ x \in {"a@g", "b@g", "c@g", "d@g", "e@g", "f@g", "k@g"} |->
        CASE x = "a@g" ->
               << << [id |-> "evt1", start |-> 140], [id |-> "evt2", start |-> 155] >> >>
          [] x = "b@g" ->
               << << [id |-> "evt3", start |-> 150] >> >>
          [] x = "c@g" ->
               << << [id |-> "evt4", start |-> 110] >>,
                  << >>,
                  << [id |-> "evt5", start |-> 120], [id |-> "evt6", start |-> 900] >> >>
          [] x = "d@g" ->
               << << [id |-> "evt7", start |-> 130], [id |-> "evt8", start |-> 131] >>,
                  << [id |-> "evt9", start |-> 132] >> >>
          [] x = "e@g" ->
               << << [id |-> "evt10", start |-> 145] >> >>
          [] x = "f@g" ->
               << << [id |-> "evt10", start |-> 145] >> >>
          [] x = "k@g" ->
               << << [id |-> "canvas_ann_8", start |-> 141] >> >> ]

CanvasAnnouncements ==
    [ x \in {"https://canvas.x", "https://canvas.y"} |->
        IF x = "https://canvas.x"
        THEN << [id |-> 7, posted_at |-> 90], [id |-> 8, posted_at |-> 95],
                [id |-> 6, posted_at |-> 112] >>
        ELSE << [id |-> 9, posted_at |-> 96] >> ]

CanvasAssignments ==
    [ x \in {"https://canvas.x", "https://canvas.y"} |->
        IF x = "https://canvas.x"
        THEN << [id |-> 31, due_at |-> 220] >>
        ELSE << [id |-> 32, due_at |-> 230] >> ]

TokenLifetimes == {60}

(***************************************************************************)
(* Helpers.                                                                *)
(***************************************************************************)
Range(s) == { s[i] : i \in DOMAIN s }

Perms(S) ==
    { s \in [1..Cardinality(S) -> S] : \A x \in S : \E i \in DOMAIN s : s[i] = x }

\* sorted(s, key=...): the indices of keys[1..n] in stable ascending order
RECURSIVE SortIdx(_, _)
SortIdx(keys, n) ==
    IF n = 0 THEN <<>>
    ELSE LET prev == SortIdx(keys, n - 1)
             pos  == Cardinality({ i \in DOMAIN prev : keys[prev[i]] <= keys[n] })
         IN  SubSeq(prev, 1, pos) \o <<n>> \o SubSeq(prev, pos + 1, n - 1)

\* sorted(s, key=..., reverse=True): stable descending order
RECURSIVE SortIdxRev(_, _)
SortIdxRev(keys, n) ==
    IF n = 0 THEN <<>>
    ELSE LET prev == SortIdxRev(keys, n - 1)
             pos  == Cardinality({ i \in DOMAIN prev : keys[prev[i]] >= keys[n] })
         IN  SubSeq(prev, 1, pos) \o <<n>> \o SubSeq(prev, pos + 1, n - 1)

\* str(n) for the small ids of the model
Digit(d) == CASE d = 0 -> "0" [] d = 1 -> "1" [] d = 2 -> "2" [] d = 3 -> "3"
              [] d = 4 -> "4" [] d = 5 -> "5" [] d = 6 -> "6" [] d = 7 -> "7"
              [] d = 8 -> "8" [] d = 9 -> "9"

RECURSIVE Str(_)
Str(n) == IF n < 10 THEN Digit(n) ELSE Str(n \div 10) \o Digit(n % 10)

\* variant: the key names the month only
DateIso_month(d) == "2024-01"

\* date.isoformat() of day number d (days of January 2024, from the 10th)
DateIso(d) == "2024-01-" \o Str(10 + d)

\* utils/encryption.py: Fernet round trip
encrypt_token(tok) == <<"enc", tok>>
decrypt_token(enc) == enc[2]


(***************************************************************************)
(* Rows and messages.                                                      *)
(***************************************************************************)
\* variant: every row is stamped with the time of the delivery
SentReminder_stamped_now(u, k, key, sched) ==
    [discord_user_id |-> u, reminder_type |-> k, event_id |-> key,
     scheduled_time |-> now]

SentReminder(u, k, key, sched) ==
    [discord_user_id |-> u, reminder_type |-> k, event_id |-> key,
     scheduled_time |-> sched]

\* a message the Notifier accepted, with the day it was delivered on
Message(u, k, key) == [user |-> u, kind |-> k, key |-> key]

Delivery(u, k, key) == [user |-> u, kind |-> k, key |-> key, day |-> today]

GoogleAccount(u, email, tok, exp) ==
    [discord_user_id |-> u, account_email |-> email,
     refresh_token |-> encrypt_token("r"), access_token |-> encrypt_token(tok),
     token_expires_at |-> exp]

CanvasAccount(u, url) ==
    [discord_user_id |-> u, canvas_url |-> url, api_token |-> encrypt_token("c")]

\* A task that runs nothing.
IdleRun ==
    [job |-> "none", pc |-> "idle", today |-> 0,
     users |-> <<>>, ui |-> 0, accts |-> <<>>, ai |-> 0,
     events |-> <<>>, ei |-> 0, assignments |-> <<>>,
     view |-> <<>>, dirty |-> {}, pending |-> {},
     got |-> <<>>, gotC |-> <<>>, sendFail |-> {}, sent |-> <<>>,
     retry |-> {}]

\* no call of the calendar client has been made
NoCall == [fn |-> "none"]

\* a command task that handles no command
IdleCmd ==
    [op |-> "none", pc |-> "idle", user |-> "", addr |-> "",
     token_data |-> <<>>, addUser |-> FALSE, existing |-> 0,
     accts |-> <<>>, ai |-> 0, view |-> <<>>, outcome |-> ""]

Init ==
    /\ users = {"101", "102"}
    /\ google_accounts =
           (1 :> GoogleAccount("101", "a@g", 0, 104)) @@
           (2 :> GoogleAccount("101", "b@g", 0, NoTime))
    /\ canvas_accounts = (1 :> CanvasAccount("101", "https://canvas.x"))
    /\ sent_reminders = EmptyBag
    /\ delivered = EmptyBag
    /\ issued = 0
    /\ now = 100
    /\ today = 0
    /\ run = [t \in Tasks |-> IdleRun]
    /\ runs = 0
    /\ call = NoCall
    /\ cmd = [c \in CmdTasks |-> IdleCmd]
    /\ cmds = 0
    /\ pending_oauth_states = << >>

(***************************************************************************)
(* The session of a run (sqlalchemy AsyncSession, expire_on_commit=False). *)
(* pending: rows added and not yet committed; a query flushes them first,  *)
(* so the session's own queries see them.  view: the attributes of the     *)
(* account objects the session has loaded; dirty: those it has changed.    *)
(***************************************************************************)
Visible(r) == sent_reminders (+) SetToBag(r.pending)

\* select(SentReminder).where(user, type, event_id): the number of rows
\* a faulty variant: the check matches on user and key only
CountRows_any_kind(r, u, k, key) ==
    LET B == Visible(r)
        M == { x \in BagToSet(B) : /\ x.discord_user_id = u
                                   /\ x.event_id = key }
    IN  BagCardinality([x \in M |-> B[x]])

\* a faulty variant: the query does not filter on the user
CountRows_any_user(r, u, k, key) ==
    LET B == Visible(r)
        M == { x \in BagToSet(B) : /\ x.reminder_type = k
                                   /\ x.event_id = key }
    IN  BagCardinality([x \in M |-> B[x]])

CountRows(r, u, k, key) ==
    LET B == Visible(r)
        M == { x \in BagToSet(B) : /\ x.discord_user_id = u
                                   /\ x.reminder_type = k
                                   /\ x.event_id = key }
    IN  BagCardinality([x \in M |-> B[x]])

\* a faulty variant: the row the query found is not looked at
scalar_one_or_none_blind(n) ==
    CASE n = 0 -> "none" [] n = 1 -> "none" [] OTHER -> "MultipleResultsFound"

\* result.scalar_one_or_none() on a result of n rows
scalar_one_or_none(n) ==
    CASE n = 0 -> "none" [] n = 1 -> "one" [] OTHER -> "MultipleResultsFound"

\* session.add(reminder) after a send that succeeded
RecordSent(r, row) == [r EXCEPT !.pending = @ \cup {row}]

\* a faulty variant: the handler of a failed send records the reminder
OnSendError_recording(r, row) ==
    [r EXCEPT !.pending = @ \cup {row},
              !.sendFail = @ \cup
        {[user |-> row.discord_user_id, kind |-> row.reminder_type,
          key |-> row.event_id]}]

\* variant: a failed send ends the loop over the items of the account
OnSendError_stopping(r, row) ==
    [r EXCEPT !.ei = Len(r.events),
              !.sendFail = @ \cup
        {[user |-> row.discord_user_id, kind |-> row.reminder_type,
          key |-> row.event_id]}]

\* "except discord.Forbidden: pass / except Exception: pass" around the send
\* that would have been recorded as row
OnSendError(r, row) ==
    [r EXCEPT !.sendFail = @ \cup
        {[user |-> row.discord_user_id, kind |-> row.reminder_type,
          key |-> row.event_id]}]

\* session.commit(): the pending rows and the changed attributes of the
\* accounts that still exist are written in one transaction
\* a faulty variant: the commit rewrites the table from the session's rows
CommittedLedger_replacing(r) == SetToBag(r.pending)

CommittedLedger(r) == sent_reminders (+) SetToBag(r.pending)

\* a faulty variant: the commit unlinks the accounts whose fetch raised
CommittedAccounts_unlinking(r) ==
    [a \in { b \in DOMAIN google_accounts :
                 b \notin DOMAIN r.got \/ r.got[b].status # "raised" } |->
        IF a \in r.dirty
        THEN [google_accounts[a] EXCEPT
                 !.access_token = r.view[a].access_token,
                 !.token_expires_at = r.view[a].token_expires_at]
        ELSE google_accounts[a]]

\* a faulty variant: the commit stores the new rows without the dirty accounts
CommittedAccounts_skipping(r) == google_accounts

CommittedAccounts(r) ==
    [a \in DOMAIN google_accounts |->
        IF a \in r.dirty
        THEN [google_accounts[a] EXCEPT
                 !.access_token = r.view[a].access_token,
                 !.token_expires_at = r.view[a].token_expires_at]
        ELSE google_accounts[a]]

\* the loop of the job body is over: what is left is to leave
\* "async with async_session()"
EndLoop(r) == [r EXCEPT !.pc = "exit"]

\* an exception leaves the job body (nothing in the body catches it); the
\* session is closed on the way out and what was not committed is dropped
Escape(r) == [IdleRun EXCEPT !.pc = "failed", !.job = r.job,
                             !.users = r.users, !.ui = r.ui]

\* the account the for loop is at did not complete: a persistence call raised
Lost(r) == [r EXCEPT !.got = [@ EXCEPT ![r.accts[r.ai]] = [@ EXCEPT !.status = "db"]]]

(***************************************************************************)
(* GoogleCalendarClient.                                                   *)
(***************************************************************************)
\* a faulty variant: the token is refreshed only after the margin has begun
_get_valid_token_late(access_token, refresh_token, token_expires_at, clock, refresh) ==
    IF /\ token_expires_at # NoTime
       /\ clock > token_expires_at - RefreshMarginMinutes
       /\ refresh_token # NoToken
    THEN IF ~refresh.ok
         THEN [raised |-> TRUE, token |-> decrypt_token(access_token),
               new_token |-> NoToken, new_expiry |-> NoTime]
         ELSE [raised |-> FALSE, token |-> refresh.token,
               new_token |-> encrypt_token(refresh.token),
               new_expiry |-> refresh.expiry]
    ELSE [raised |-> FALSE, token |-> decrypt_token(access_token),
          new_token |-> NoToken, new_expiry |-> NoTime]

\* _get_valid_token: refresh is the answer of the token endpoint, "fail" or
\* [token, expiry]; the result says whether the call raised
_get_valid_token(access_token, refresh_token, token_expires_at, clock, refresh) ==
    LET decrypted_access  == decrypt_token(access_token)
        has_refresh       == refresh_token # NoToken
    IN  IF /\ token_expires_at # NoTime
           /\ clock >= token_expires_at - RefreshMarginMinutes
           /\ has_refresh
        THEN IF ~refresh.ok
             THEN [raised |-> TRUE, token |-> decrypted_access,
                   new_token |-> NoToken, new_expiry |-> NoTime]
             ELSE [raised |-> FALSE, token |-> refresh.token,
                   new_token |-> encrypt_token(refresh.token),
                   new_expiry |-> refresh.expiry]
        ELSE [raised |-> FALSE, token |-> decrypted_access,
              new_token |-> NoToken, new_expiry |-> NoTime]

\* whether _get_valid_token calls the token endpoint
NeedsRefresh(acct, clock) ==
    /\ acct.token_expires_at # NoTime
    /\ clock >= acct.token_expires_at - RefreshMarginMinutes
    /\ acct.refresh_token # NoToken

\* one page of the provider's answer, restricted to the window asked for,
\* each item normalised as get_events does
PageEvents(page, time_min, time_max) ==
    LET keep == SelectSeq(page, LAMBDA it : it.start >= time_min /\ it.start <= time_max)
    IN  [i \in DOMAIN keep |-> [id |-> keep[i].id, date |-> keep[i].start,
                                source |-> "google"]]

\* a faulty variant: the page token of the answer is not followed
FetchPages_one_page(pages, i, failAt, time_min, time_max, events) ==
    IF i = failAt
    THEN events
    ELSE events \o PageEvents(pages[i], time_min, time_max)

\* get_events' loop: page i is answered with a non-200 status iff i = failAt
\* (then the loop breaks with what it has); the last page has no page token
RECURSIVE FetchPages(_, _, _, _, _, _)
FetchPages(pages, i, failAt, time_min, time_max, events) ==
    IF i = failAt
    THEN events
    ELSE LET more == events \o PageEvents(pages[i], time_min, time_max)
         IN  IF i < Len(pages)
             THEN FetchPages(pages, i + 1, failAt, time_min, time_max, more)
             ELSE more

get_events(email, failAt, time_min, time_max) ==
    FetchPages(GoogleCalendar[email], 1, failAt, time_min, time_max, <<>>)

get_upcoming_events(email, failAt, clock, days) ==
    get_events(email, failAt, clock, clock + days * MinutesPerDay)

get_events_starting_soon(email, failAt, clock, hours) ==
    get_events(email, failAt, clock, clock + hours * MinutesPerHour)

\* The answers the token endpoint can give to a refresh now.
RefreshFails == [ok |-> FALSE, token |-> 0, expiry |-> NoTime]

RefreshAnswers ==
    {RefreshFails} \cup
    IF issued < MaxRot
    THEN { [ok |-> TRUE, token |-> issued + 1, expiry |-> now + l] :
             l \in TokenLifetimes }
    ELSE {}

\* What one call of the calendar client can meet: the token endpoint's
\* answer (if it is asked), the page answered with a non-200 status (0: none),
\* and whether the HTTP exchange itself raises.
FetchInputs(acct) ==
    LET answers == IF NeedsRefresh(acct, now) THEN RefreshAnswers ELSE {RefreshFails}
    IN  { [refresh |-> rf, failAt |-> 0, raise |-> TRUE] : rf \in answers }
        \cup
        { [refresh |-> rf, failAt |-> fa, raise |-> FALSE] :
            rf \in answers, fa \in 0..Len(GoogleCalendar[acct.account_email]) }

\* get_upcoming_events / get_events_starting_soon on the account object acct:
\* (events, new_token, new_expiry), or raised
GoogleFetch(acct, in, minutes) ==
    LET v == _get_valid_token(acct.access_token, acct.refresh_token,
                              acct.token_expires_at, now, in.refresh)
    IN  IF v.raised \/ in.raise
        THEN [raised |-> TRUE, events |-> <<>>, new_token |-> NoToken,
              new_expiry |-> NoTime]
        ELSE [raised |-> FALSE,
              events |-> get_events(acct.account_email, in.failAt, now, now + minutes),
              new_token |-> v.new_token, new_expiry |-> v.new_expiry]

\* the token endpoint issued a token in this call
Issued(acct, in) ==
    IF NeedsRefresh(acct, now) /\ in.refresh.ok THEN issued + 1 ELSE issued

\* "if new_token: account.access_token = ...; account.token_expires_at = ..."
StoreRotation(r, a, res) ==
    IF res.new_token # NoToken
    THEN [r EXCEPT !.view = [@ EXCEPT ![a] =
                       [@ EXCEPT !.access_token = res.new_token,
                                 !.token_expires_at = res.new_expiry]],
                   !.dirty = @ \cup {a}]
    ELSE r

(***************************************************************************)
(* ReminderScheduler.check_hour_before_reminders                           *)
(***************************************************************************)
\* the for loop over google_accounts moves on; after the last account the
\* session is closed
HourNextAccount(r) ==
    IF r.ai < Len(r.accts)
    THEN [r EXCEPT !.ai = @ + 1, !.pc = "h_fetch", !.events = <<>>, !.ei = 0]
    ELSE EndLoop(r)

\* variant: after the last event the loop starts over with the first one
HourNextEvent_again(r) ==
    IF r.ei < Len(r.events)
    THEN [r EXCEPT !.ei = @ + 1, !.pc = "h_check"]
    ELSE IF Len(r.events) = 0
         THEN [r EXCEPT !.pc = "h_commit"]
         ELSE [r EXCEPT !.ei = 1, !.pc = "h_check"]

\* the for loop over events moves on; after the last event comes the commit
HourNextEvent(r) ==
    IF r.ei < Len(r.events)
    THEN [r EXCEPT !.ei = @ + 1, !.pc = "h_check"]
    ELSE [r EXCEPT !.pc = "h_commit"]

\* a faulty variant: a fetch that raised ends the loop over the accounts
HourFetchFailed_aborting(r) ==
    EndLoop([r EXCEPT !.got =
        (r.accts[r.ai] :> [status |-> "raised", events |-> <<>>]) @@ @])

\* "except Exception: pass" of the account's try block, for a fetch that
\* raised: the loop goes on with the next account
HourFetchFailed(r) ==
    HourNextAccount([r EXCEPT !.got =
        (r.accts[r.ai] :> [status |-> "raised", events |-> <<>>]) @@ @])

\* result = await session.execute(select(GoogleAccount))
HourLoad(t) ==
    LET r == run[t] IN
    /\ r.pc = "h_load"
    /\ \/ \E order \in Perms(DOMAIN google_accounts) :
            run' = [run EXCEPT ![t] =
                IF order = <<>>
                THEN EndLoop(r)
                ELSE [r EXCEPT !.accts = order, !.ai = 1, !.pc = "h_fetch",
                               !.view = google_accounts]]
       \/ run' = [run EXCEPT ![t] = Escape(r)]
    /\ UNCHANGED <<pending_oauth_states, call, cmd, cmds, users, google_accounts, canvas_accounts, sent_reminders,
                   delivered, issued, now, today, runs>>

\* events, new_token, new_expiry = await get_events_starting_soon(...)
HourFetch(t) ==
    LET r == run[t]
        a == r.accts[r.ai]
    IN
    /\ r.pc = "h_fetch"
    /\ \E in \in FetchInputs(r.view[a]) :
         LET res == GoogleFetch(r.view[a], in, 1 * MinutesPerHour) IN
         /\ issued' = Issued(r.view[a], in)
         /\ run' = [run EXCEPT ![t] =
              IF res.raised
              THEN HourFetchFailed(r)
              ELSE LET r1 == StoreRotation(r, a, res)
                       r2 == [r1 EXCEPT !.got = (a :> [status |-> "ok", events |-> res.events]) @@ @,
                                        !.events = res.events, !.ei = 0]
                   IN  HourNextEvent(r2)]
    /\ UNCHANGED <<pending_oauth_states, call, cmd, cmds, users, google_accounts, canvas_accounts, sent_reminders,
                   delivered, now, today, runs>>

\* _send_hour_before_reminder, up to "if result.scalar_one_or_none(): return"
HourCheck(t) ==
    LET r   == run[t]
        a   == r.accts[r.ai]
        u   == r.view[a].discord_user_id
        ev  == r.events[r.ei]
        n   == CountRows(r, u, "hour_before", ev.id)
    IN
    /\ r.pc = "h_check"
    /\ \/ run' = [run EXCEPT ![t] =
              CASE scalar_one_or_none(n) = "none" -> [r EXCEPT !.pc = "h_send"]
                [] scalar_one_or_none(n) = "one"  -> HourNextEvent(r)
                [] OTHER -> HourNextAccount(Lost(r))]
       \/ run' = [run EXCEPT ![t] = HourNextAccount(Lost(r))]
    /\ UNCHANGED <<pending_oauth_states, call, cmd, cmds, users, google_accounts, canvas_accounts, sent_reminders,
                   delivered, issued, now, today, runs>>

\* _send_hour_before_reminder, the try block: fetch_user, send, session.add
HourSend(t) ==
    LET r   == run[t]
        a   == r.accts[r.ai]
        u   == r.view[a].discord_user_id
        ev  == r.events[r.ei]
    IN
    /\ r.pc = "h_send"
    /\ \/ /\ delivered' = delivered (+) SetToBag({Delivery(u, "hour_before", ev.id)})
          /\ run' = [run EXCEPT ![t] = HourNextEvent(
                 RecordSent(r, SentReminder(u, "hour_before", ev.id, ev.date)))]
       \/ /\ delivered' = delivered
          /\ run' = [run EXCEPT ![t] = HourNextEvent(
                 OnSendError(r, SentReminder(u, "hour_before", ev.id, ev.date)))]
    /\ UNCHANGED <<pending_oauth_states, call, cmd, cmds, users, google_accounts, canvas_accounts, sent_reminders,
                   issued, now, today, runs>>

\* await session.commit(), and "except Exception: pass" around it
HourCommit(t) ==
    LET r == run[t] IN
    /\ r.pc = "h_commit"
    /\ \/ /\ sent_reminders' = CommittedLedger(r)
          /\ google_accounts' = CommittedAccounts(r)
          /\ run' = [run EXCEPT ![t] =
                 HourNextAccount([r EXCEPT !.pending = {}, !.dirty = {}])]
       \/ /\ UNCHANGED <<sent_reminders, google_accounts>>
          /\ run' = [run EXCEPT ![t] = HourNextAccount(
                   [Lost(r) EXCEPT !.pending = {}, !.dirty = {}])]
    /\ UNCHANGED <<pending_oauth_states, call, cmd, cmds, users, canvas_accounts, delivered, issued, now, today, runs>>

(***************************************************************************)
(* CanvasClient.  status is FALSE when the courses request is answered     *)
(* with a non-200 status (then there are no courses, and no items).        *)
(***************************************************************************)
get_assignments(canvas_url, status, clock, days_ahead) ==
    LET all  == IF status THEN CanvasAssignments[canvas_url] ELSE <<>>
        keep == SelectSeq(all, LAMBDA x : /\ clock <= x.due_at
                                          /\ x.due_at <= clock + days_ahead * MinutesPerDay)
        out  == [i \in DOMAIN keep |-> [id |-> keep[i].id, due_at |-> keep[i].due_at,
                                        source |-> "canvas"]]
        idx  == SortIdx([i \in DOMAIN out |-> out[i].due_at], Len(out))
    IN  [i \in DOMAIN out |-> out[idx[i]]]

\* the announcements the provider holds at the time of the request
Posted(canvas_url) ==
    SelectSeq(CanvasAnnouncements[canvas_url], LAMBDA x : x.posted_at <= now)

get_announcements(canvas_url, status, since) ==
    LET all  == IF status THEN Posted(canvas_url) ELSE <<>>
        keep == SelectSeq(all, LAMBDA x : x.posted_at >= since)
        idx  == SortIdxRev([i \in DOMAIN keep |-> keep[i].posted_at], Len(keep))
    IN  [i \in DOMAIN keep |-> keep[idx[i]]]

\* What one call of the Canvas client can meet.
CanvasInputs ==
    { [status |-> TRUE, raise |-> TRUE] } \cup
    { [status |-> st, raise |-> FALSE] : st \in BOOLEAN }

(***************************************************************************)
(* ReminderScheduler.send_daily_summaries and _send_user_daily_summary     *)
(***************************************************************************)
\* the for loop over users moves on; after the last user the session closes
DailyNextUser(r) ==
    IF r.ui < Len(r.users)
    THEN [r EXCEPT !.ui = @ + 1, !.pc = "d_check", !.accts = <<>>, !.ai = 0,
                   !.events = <<>>, !.assignments = <<>>, !.got = <<>>,
                   !.gotC = <<>>, !.sent = <<>>]
    ELSE EndLoop(r)

\* a faulty variant: the summary is sent whatever was gathered
DailyDecide_always(r) == [r EXCEPT !.pc = "d_send"]

\* "if not google_events and not canvas_assignments: return"
DailyDecide(r) ==
    IF r.events = <<>> /\ r.assignments = <<>>
    THEN DailyNextUser(r)
    ELSE [r EXCEPT !.pc = "d_send"]

\* a faulty variant: a fetch that raised discards what was gathered so far
DailyFetchFailed_discarding(r) ==
    [r EXCEPT !.events = <<>>,
              !.got = (r.accts[r.ai] :> [status |-> "raised", events |-> <<>>]) @@ @]

\* "except Exception: pass" around one account's get_upcoming_events: the
\* events gathered so far are kept
DailyFetchFailed(r) ==
    [r EXCEPT !.got = (r.accts[r.ai] :> [status |-> "raised", events |-> <<>>]) @@ @]

\* "except Exception: pass" around one account's get_assignments
DailyCanvasFailed(r) ==
    [r EXCEPT !.gotC = (r.accts[r.ai] :> [status |-> "raised", events |-> <<>>]) @@ @]

\* result = await session.execute(select(User))
DailyUsers(t) ==
    LET r == run[t] IN
    /\ r.pc = "d_users"
    /\ \/ \E order \in Perms(users) :
            run' = [run EXCEPT ![t] =
                IF order = <<>>
                THEN EndLoop(r)
                ELSE [r EXCEPT !.users = order, !.ui = 1, !.pc = "d_check"]]
       \/ run' = [run EXCEPT ![t] = Escape(r)]
    /\ UNCHANGED <<pending_oauth_states, call, cmd, cmds, users, google_accounts, canvas_accounts, sent_reminders,
                   delivered, issued, now, today, runs>>

\* today = date.today().isoformat(); the "already sent today" query
DailyCheck(t) ==
    LET r == run[t]
        u == r.users[r.ui]
        n == CountRows(r, u, "daily_summary", DateIso(today))
    IN
    /\ r.pc = "d_check"
    /\ \/ run' = [run EXCEPT ![t] =
              CASE scalar_one_or_none(n) = "none" ->
                       [r EXCEPT !.pc = "d_loadG", !.today = today]
                [] scalar_one_or_none(n) = "one" ->
                       DailyNextUser([r EXCEPT !.today = today])
                [] OTHER -> Escape(r)]
       \/ run' = [run EXCEPT ![t] = Escape(r)]
    /\ UNCHANGED <<pending_oauth_states, call, cmd, cmds, users, google_accounts, canvas_accounts, sent_reminders,
                   delivered, issued, now, today, runs>>

\* the session's account objects: one already loaded keeps its attributes
Loaded(r, ids) ==
    [a \in (DOMAIN r.view) \cup ids |->
        IF a \in DOMAIN r.view THEN r.view[a] ELSE google_accounts[a]]

\* select(GoogleAccount).where(discord_user_id == user_id)
DailyLoadGoogle(t) ==
    LET r   == run[t]
        u   == r.users[r.ui]
        ids == { a \in DOMAIN google_accounts :
                    google_accounts[a].discord_user_id = u }
    IN
    /\ r.pc = "d_loadG"
    /\ \/ \E order \in Perms(ids) :
            run' = [run EXCEPT ![t] =
                IF order = <<>>
                THEN [r EXCEPT !.pc = "d_loadC"]
                ELSE [r EXCEPT !.accts = order, !.ai = 1, !.pc = "d_fetchG",
                               !.view = Loaded(r, ids)]]
       \/ run' = [run EXCEPT ![t] = Escape(r)]
    /\ UNCHANGED <<pending_oauth_states, call, cmd, cmds, users, google_accounts, canvas_accounts, sent_reminders,
                   delivered, issued, now, today, runs>>

\* one turn of "for account in google_accounts": get_upcoming_events
DailyFetchGoogle(t) ==
    LET r == run[t]
        a == r.accts[r.ai]
        step(x) == IF x.ai < Len(x.accts)
                   THEN [x EXCEPT !.ai = @ + 1]
                   ELSE [x EXCEPT !.pc = "d_loadC"]
    IN
    /\ r.pc = "d_fetchG"
    /\ \E in \in FetchInputs(r.view[a]) :
         LET res == GoogleFetch(r.view[a], in, REMINDER_DAYS_AHEAD * MinutesPerDay) IN
         /\ issued' = Issued(r.view[a], in)
         /\ run' = [run EXCEPT ![t] =
              IF res.raised
              THEN step(DailyFetchFailed(r))
              ELSE step([StoreRotation(r, a, res) EXCEPT
                            !.got = (a :> [status |-> "ok", events |-> res.events]) @@ @,
                            !.events = @ \o res.events])]
    /\ UNCHANGED <<pending_oauth_states, call, cmd, cmds, users, google_accounts, canvas_accounts, sent_reminders,
                   delivered, now, today, runs>>

\* select(CanvasAccount).where(discord_user_id == user_id)
DailyLoadCanvas(t) ==
    LET r   == run[t]
        u   == r.users[r.ui]
        ids == { c \in DOMAIN canvas_accounts :
                    canvas_accounts[c].discord_user_id = u }
    IN
    /\ r.pc = "d_loadC"
    /\ \/ \E order \in Perms(ids) :
            run' = [run EXCEPT ![t] =
                IF order = <<>>
                THEN DailyDecide(r)
                ELSE [r EXCEPT !.accts = order, !.ai = 1, !.pc = "d_fetchC"]]
       \/ run' = [run EXCEPT ![t] = Escape(r)]
    /\ UNCHANGED <<pending_oauth_states, call, cmd, cmds, users, google_accounts, canvas_accounts, sent_reminders,
                   delivered, issued, now, today, runs>>

\* one turn of "for account in canvas_accounts": get_assignments
DailyFetchCanvas(t) ==
    LET r == run[t]
        c == r.accts[r.ai]
        step(x) == IF x.ai < Len(x.accts)
                   THEN [x EXCEPT !.ai = @ + 1]
                   ELSE DailyDecide(x)
    IN
    /\ r.pc = "d_fetchC"
    /\ \E in \in CanvasInputs :
         run' = [run EXCEPT ![t] =
              IF in.raise
              THEN step(DailyCanvasFailed(r))
              ELSE LET res == get_assignments(canvas_accounts[c].canvas_url,
                                              in.status, now, REMINDER_DAYS_AHEAD)
                   IN  step([r EXCEPT
                            !.gotC = (c :> [status |-> "ok", events |-> res]) @@ @,
                            !.assignments = @ \o res])]
    /\ UNCHANGED <<pending_oauth_states, call, cmd, cmds, users, google_accounts, canvas_accounts, sent_reminders,
                   delivered, issued, now, today, runs>>

\* the try block: fetch_user, render, send, session.add(reminder)
DailySend(t) ==
    LET r   == run[t]
        u   == r.users[r.ui]
        key == DateIso(r.today)
    IN
    /\ r.pc = "d_send"
    /\ \/ /\ delivered' = delivered (+) SetToBag({Delivery(u, "daily_summary", key)})
          /\ run' = [run EXCEPT ![t] =
                 [RecordSent(r, SentReminder(u, "daily_summary", key, now)) EXCEPT
                     !.pc = "d_commit",
                     !.sent = [google |-> r.events, canvas |-> r.assignments]]]
       \/ /\ delivered' = delivered
          /\ run' = [run EXCEPT ![t] = DailyNextUser(
                 OnSendError(r, SentReminder(u, "daily_summary", key, now)))]
    /\ UNCHANGED <<pending_oauth_states, call, cmd, cmds, users, google_accounts, canvas_accounts, sent_reminders,
                   issued, now, today, runs>>

\* await session.commit(), and the "except Exception: pass" around it
DailyCommit(t) ==
    LET r == run[t] IN
    /\ r.pc = "d_commit"
    /\ \/ /\ sent_reminders' = CommittedLedger(r)
          /\ google_accounts' = CommittedAccounts(r)
          /\ run' = [run EXCEPT ![t] =
                 DailyNextUser([r EXCEPT !.pending = {}, !.dirty = {}])]
       \/ /\ UNCHANGED <<sent_reminders, google_accounts>>
          /\ run' = [run EXCEPT ![t] = DailyNextUser(
                 [r EXCEPT !.pending = {}, !.dirty = {}])]
    /\ UNCHANGED <<pending_oauth_states, call, cmd, cmds, users, canvas_accounts, delivered, issued, now, today, runs>>

(***************************************************************************)
(* ReminderScheduler.check_canvas_announcements                            *)
(***************************************************************************)
AnnNextAccount(r) ==
    IF r.ai < Len(r.accts)
    THEN [r EXCEPT !.ai = @ + 1, !.pc = "a_fetch", !.events = <<>>, !.ei = 0]
    ELSE EndLoop(r)

AnnNextItem(r) ==
    IF r.ei < Len(r.events)
    THEN [r EXCEPT !.ei = @ + 1, !.pc = "a_check"]
    ELSE [r EXCEPT !.pc = "a_commit"]

\* ann_id = f"canvas_ann_{announcement.get('id')}"
AnnKey(ann) == "canvas_ann_" \o Str(ann.id)

\* result = await session.execute(select(CanvasAccount))
AnnLoad(t) ==
    LET r == run[t] IN
    /\ r.pc = "a_load"
    /\ \/ \E order \in Perms(DOMAIN canvas_accounts) :
            run' = [run EXCEPT ![t] =
                IF order = <<>>
                THEN EndLoop(r)
                ELSE [r EXCEPT !.accts = order, !.ai = 1, !.pc = "a_fetch",
                               !.view = canvas_accounts]]
       \/ run' = [run EXCEPT ![t] = Escape(r)]
    /\ UNCHANGED <<pending_oauth_states, call, cmd, cmds, users, google_accounts, canvas_accounts, sent_reminders,
                   delivered, issued, now, today, runs>>

\* since = utcnow() - (ANNOUNCEMENT_CHECK_INTERVAL + 5) minutes; get_announcements
AnnFetch(t) ==
    LET r     == run[t]
        c     == r.accts[r.ai]
        since == now - (ANNOUNCEMENT_CHECK_INTERVAL + AnnouncementSlackMinutes)
    IN
    /\ r.pc = "a_fetch"
    /\ \E in \in CanvasInputs :
         run' = [run EXCEPT ![t] =
              IF in.raise
              THEN AnnNextAccount([r EXCEPT !.got = (c :> [status |-> "raised", events |-> <<>>]) @@ @])
              ELSE LET anns == get_announcements(r.view[c].canvas_url,
                                                 in.status, since)
                   IN  AnnNextItem([r EXCEPT
                           !.got = (c :> [status |-> "ok", events |-> anns]) @@ @,
                           !.events = anns, !.ei = 0])]
    /\ UNCHANGED <<pending_oauth_states, call, cmd, cmds, users, google_accounts, canvas_accounts, sent_reminders,
                   delivered, issued, now, today, runs>>

\* _send_announcement_notification, up to "if result.scalar_one_or_none(): return"
AnnCheck(t) ==
    LET r   == run[t]
        c   == r.accts[r.ai]
        u   == r.view[c].discord_user_id
        n   == CountRows(r, u, "announcement", AnnKey(r.events[r.ei]))
    IN
    /\ r.pc = "a_check"
    /\ \/ run' = [run EXCEPT ![t] =
              CASE scalar_one_or_none(n) = "none" -> [r EXCEPT !.pc = "a_send"]
                [] scalar_one_or_none(n) = "one"  -> AnnNextItem(r)
                [] OTHER -> AnnNextAccount(Lost(r))]
       \/ run' = [run EXCEPT ![t] = AnnNextAccount(Lost(r))]
    /\ UNCHANGED <<pending_oauth_states, call, cmd, cmds, users, google_accounts, canvas_accounts, sent_reminders,
                   delivered, issued, now, today, runs>>

\* _send_announcement_notification, the try block
AnnSend(t) ==
    LET r   == run[t]
        c   == r.accts[r.ai]
        u   == r.view[c].discord_user_id
        key == AnnKey(r.events[r.ei])
    IN
    /\ r.pc = "a_send"
    /\ \/ /\ delivered' = delivered (+) SetToBag({Delivery(u, "announcement", key)})
          /\ run' = [run EXCEPT ![t] = AnnNextItem(
                 RecordSent(r, SentReminder(u, "announcement", key, NoTime)))]
       \/ /\ delivered' = delivered
          /\ run' = [run EXCEPT ![t] = AnnNextItem(
                 OnSendError(r, SentReminder(u, "announcement", key, NoTime)))]
    /\ UNCHANGED <<pending_oauth_states, call, cmd, cmds, users, google_accounts, canvas_accounts, sent_reminders,
                   issued, now, today, runs>>

\* await session.commit(), and "except Exception: pass" around it
AnnCommit(t) ==
    LET r == run[t] IN
    /\ r.pc = "a_commit"
    /\ \/ /\ sent_reminders' = CommittedLedger(r)
          /\ google_accounts' = CommittedAccounts(r)
          /\ run' = [run EXCEPT ![t] =
                 AnnNextAccount([r EXCEPT !.pending = {}, !.dirty = {}])]
       \/ /\ UNCHANGED <<sent_reminders, google_accounts>>
          /\ run' = [run EXCEPT ![t] = AnnNextAccount(
                   [Lost(r) EXCEPT !.pending = {}, !.dirty = {}])]
    /\ UNCHANGED <<pending_oauth_states, call, cmd, cmds, users, canvas_accounts, delivered, issued, now, today, runs>>

(***************************************************************************)
(* The scheduler and the environment.                                      *)
(***************************************************************************)
Jobs == {"daily_summary", "hour_before_check", "announcement_check"}

FirstPc(job) == CASE job = "daily_summary" -> "d_users"
                  [] job = "hour_before_check" -> "h_load"
                  [] job = "announcement_check" -> "a_load"

\* a faulty variant: a job body left by an exception is never finished
Running_stuck(t) == run[t].pc \notin {"idle", "done"}

\* a job body is executing: it has been called and has not returned or raised
Running(t) == run[t].pc \notin {"idle", "done", "failed"}

\* leaving "async with async_session()": the session is closed, what was
\* not committed is dropped, and the job body returns
CloseSession(t) ==
    /\ run[t].pc = "exit"
    /\ run' = [run EXCEPT ![t] = [IdleRun EXCEPT !.pc = "done", !.job = run[t].job]]
    /\ UNCHANGED <<pending_oauth_states, call, cmd, cmds, users, google_accounts, canvas_accounts, sent_reminders,
                   delivered, issued, now, today, runs>>

\* a task starts executing a job body (the lowest free task takes it)
Begin(t, job) ==
    /\ ~Running(t)
    /\ \A s \in Tasks : s < t => Running(s)
    /\ runs < MaxRuns
    /\ runs' = runs + 1
    /\ run' = [run EXCEPT ![t] = [IdleRun EXCEPT !.job = job, !.pc = FirstPc(job)]]
    /\ UNCHANGED <<pending_oauth_states, call, cmd, cmds, users, google_accounts, canvas_accounts, sent_reminders,
                   delivered, issued, now, today>>

\* a faulty variant: the scheduler starts a job whatever is executing
StartRun_overlapping(t, job) == Begin(t, job)

\* AsyncIOScheduler fires a job added by start(): add_job is called without
\* max_instances, so a job whose previous run still executes is not started
StartRun(t, job) ==
    /\ \A s \in Tasks : Running(s) => run[s].job # job
    /\ Begin(t, job)

\* the job body is called while another call of it is still executing
\* (the race test: the same body fired twice against one store)
RaceRun(t, job) ==
    /\ \E s \in Tasks : Running(s) /\ run[s].job = job
    /\ Begin(t, job)

\* the process is stopped: every run is abandoned where it stands, and what
\* its session had not committed is lost
Shutdown ==
    /\ \E t \in Tasks : Running(t)
    /\ run' = [t \in Tasks |-> IF Running(t) THEN IdleRun ELSE run[t]]
    /\ UNCHANGED <<pending_oauth_states, call, cmd, cmds, users, google_accounts, canvas_accounts, sent_reminders,
                   delivered, issued, now, today, runs>>

\* midnight passes (between runs: the daily job fires at 08:00)
NextDay ==
    /\ today < MaxDay
    /\ \A t \in Tasks : ~Running(t)
    /\ today' = today + 1
    /\ UNCHANGED <<pending_oauth_states, call, cmd, cmds, users, google_accounts, canvas_accounts, sent_reminders,
                   delivered, issued, now, run, runs>>

JobStep(t) ==
    \/ DailyUsers(t)
    \/ DailyCheck(t)
    \/ DailyLoadGoogle(t)
    \/ DailyFetchGoogle(t)
    \/ DailyLoadCanvas(t)
    \/ DailyFetchCanvas(t)
    \/ DailySend(t)
    \/ DailyCommit(t)
    \/ HourLoad(t)
    \/ HourFetch(t)
    \/ HourCheck(t)
    \/ HourSend(t)
    \/ HourCommit(t)
    \/ AnnLoad(t)
    \/ AnnFetch(t)
    \/ AnnCheck(t)
    \/ AnnSend(t)
    \/ AnnCommit(t)
    \/ CloseSession(t)

\* The program under its scheduler: each job runs in at most one instance,
\* different jobs run in parallel, the process can be stopped and restarted.
Next ==
    \/ \E t \in Tasks, job \in Jobs : StartRun(t, job)
    \/ \E t \in Tasks : JobStep(t)
    \/ Shutdown
    \/ NextDay

Spec == Init /\ [][Next]_vars

\* The race test: a job body may also be fired while it is already running.
NextRace ==
    \/ \E t \in Tasks, job \in Jobs : StartRun(t, job)
    \/ \E t \in Tasks, job \in Jobs : RaceRun(t, job)
    \/ \E t \in Tasks : JobStep(t)

SpecRace == Init /\ [][NextRace]_vars

(***************************************************************************)
(* LinkCommands: google_callback, link_canvas, unlink_google and           *)
(* unlink_canvas.  Each command has a session of its own; its steps are    *)
(* the awaits of the handler.                                              *)
(***************************************************************************)
MaxCmds == 2     \* slash commands received in one behaviour

\* who sends commands, and the addresses they name: one linked, one not.
\* A Canvas address is typed with or without a trailing slash.
CmdUsers  == {"101", "103"}
CmdEmails == {"a@g", "e@g"}
CmdUrls   == { [base |-> b, slash |-> k] :
                  b \in {"https://canvas.x", "https://canvas.y"}, k \in {FALSE, TRUE} }

\* canvas_url.rstrip("/")
rstrip(url) == url.base

\* the id an autoincrement primary key gives to a new row of table tbl
NextId(tbl) ==
    IF DOMAIN tbl = {} THEN 1
    ELSE (CHOOSE m \in DOMAIN tbl : \A a \in DOMAIN tbl : a <= m) + 1

\* select(GoogleAccount).where(discord_user_id == u, account_email == email)
FindGoogle(u, email) ==
    { a \in DOMAIN google_accounts : /\ google_accounts[a].discord_user_id = u
                                     /\ google_accounts[a].account_email = email }

\* select(CanvasAccount).where(discord_user_id == u, canvas_url == url)
FindCanvas(u, url) ==
    { a \in DOMAIN canvas_accounts : /\ canvas_accounts[a].discord_user_id = u
                                     /\ canvas_accounts[a].canvas_url = url }

\* GoogleCalendarClient.exchange_code: what the provider can hand out for c
TokenData(c, email) ==
    { [email |-> email, access_token |-> encrypt_token(10 + c),
       refresh_token |-> rt, token_expires_at |-> now + 60] :
          rt \in {encrypt_token("r2"), NoToken} }

\* the handler is over (its message is sent, its session closed)
Finish(d, outcome) == [IdleCmd EXCEPT !.pc = "done", !.op = d.op, !.user = d.user,
                                      !.addr = d.addr, !.outcome = outcome]

\* an interaction arrives (the lowest free command task handles it)
Receive(c, op, u, addr, first) ==
    /\ cmd[c].pc \in {"idle", "done"}
    /\ \A b \in CmdTasks : b < c => cmd[b].pc \notin {"idle", "done"}
    /\ cmds < MaxCmds
    /\ cmds' = cmds + 1
    /\ cmd' = [cmd EXCEPT ![c] = [IdleCmd EXCEPT !.op = op, !.user = u,
                                                 !.addr = addr, !.pc = first]]
    /\ UNCHANGED <<pending_oauth_states, call, users, google_accounts, canvas_accounts, sent_reminders,
                   delivered, issued, now, today, run, runs>>

\* /google_callback: defer, user_id
google_callback(c) ==
    \E u \in CmdUsers, email \in CmdEmails :
        Receive(c, "google_callback", u, email, "verify")

\* /link_google: state = secrets.token_urlsafe(32), a token no earlier call
\* produced; pending_oauth_states[state] = user_id; the link is sent
link_google(c) ==
    \E u \in CmdUsers :
        LET state == Cardinality(DOMAIN pending_oauth_states) + 1 IN
        /\ cmd[c].pc \in {"idle", "done"}
        /\ \A b \in CmdTasks : b < c => cmd[b].pc \notin {"idle", "done"}
        /\ cmds < MaxCmds
        /\ cmds' = cmds + 1
        /\ pending_oauth_states' = (state :> u) @@ pending_oauth_states
        /\ cmd' = [cmd EXCEPT ![c] =
               Finish([IdleCmd EXCEPT !.op = "link_google", !.user = u], "sent")]
        /\ UNCHANGED <<call, users, google_accounts, canvas_accounts,
                       sent_reminders, delivered, issued, now, today, run, runs>>

\* /link_canvas: defer, user_id, canvas_url.rstrip("/")
link_canvas(c) ==
    \E u \in CmdUsers, url \in CmdUrls :
        Receive(c, "link_canvas", u, rstrip(url), "verify")

\* /unlink_google: defer, user_id
unlink_google(c) ==
    \E u \in CmdUsers, email \in CmdEmails :
        Receive(c, "unlink_google", u, email, "find")

\* /unlink_canvas: defer, user_id, canvas_url.rstrip("/")
unlink_canvas(c) ==
    \E u \in CmdUsers, url \in CmdUrls :
        Receive(c, "unlink_canvas", u, rstrip(url), "find")

\* token_data = await exchange_code(code) / user_info = await validate_token(...)
LinkVerify(c) ==
    LET d == cmd[c] IN
    /\ d.pc = "verify"
    /\ \/ cmd' = [cmd EXCEPT ![c] = Finish(d, "failed")]
       \/ /\ d.op = "google_callback"
          /\ \E td \in TokenData(c, d.addr) :
               cmd' = [cmd EXCEPT ![c] = [d EXCEPT !.pc = "user", !.token_data = td]]
       \/ /\ d.op = "link_canvas"
          /\ cmd' = [cmd EXCEPT ![c] =
                 [d EXCEPT !.pc = "user",
                           !.token_data = [api_token |-> encrypt_token("c2")]]]
    /\ UNCHANGED <<pending_oauth_states, call, cmds, users, google_accounts, canvas_accounts,
                   sent_reminders, delivered, issued, now, today, run, runs>>

\* select(User).where(discord_user_id == user_id); "if not user: session.add"
LinkUser(c) ==
    LET d == cmd[c] IN
    /\ d.pc = "user"
    /\ \/ cmd' = [cmd EXCEPT ![c] = [d EXCEPT !.pc = "find",
                                              !.addUser = (d.user \notin users)]]
       \/ cmd' = [cmd EXCEPT ![c] = Finish(d, "failed")]
    /\ UNCHANGED <<pending_oauth_states, call, cmds, users, google_accounts, canvas_accounts,
                   sent_reminders, delivered, issued, now, today, run, runs>>

\* the "already linked" query and existing = result.scalar_one_or_none();
\* the query first flushes the new User row, which the store refuses when
\* the user has been inserted meanwhile
LinkFind(c) ==
    LET d == cmd[c]
        M == IF d.op = "google_callback" THEN FindGoogle(d.user, d.addr)
                                         ELSE FindCanvas(d.user, d.addr)
    IN
    /\ d.pc = "find"
    /\ d.op \in {"google_callback", "link_canvas"}
    /\ cmd' = [cmd EXCEPT ![c] =
          IF d.addUser /\ d.user \in users
          THEN Finish(d, "failed")
          ELSE CASE scalar_one_or_none(Cardinality(M)) = "none" ->
                        [d EXCEPT !.pc = "commit", !.existing = 0]
                 [] scalar_one_or_none(Cardinality(M)) = "one" ->
                        [d EXCEPT !.pc = "commit", !.existing = CHOOSE a \in M : TRUE]
                 [] OTHER -> Finish(d, "failed")]
    /\ UNCHANGED <<pending_oauth_states, call, cmds, users, google_accounts, canvas_accounts,
                   sent_reminders, delivered, issued, now, today, run, runs>>

\* the rows of google_accounts after the commit of google_callback: the
\* existing row with new tokens, or one more row
LinkedGoogle(d) ==
    IF d.existing # 0
    THEN [google_accounts EXCEPT ![d.existing] =
             [@ EXCEPT !.access_token = d.token_data.access_token,
                       !.refresh_token =
                           IF d.token_data.refresh_token # NoToken
                           THEN d.token_data.refresh_token ELSE @,
                       !.token_expires_at = d.token_data.token_expires_at]]
    ELSE (NextId(google_accounts) :>
             [discord_user_id |-> d.user, account_email |-> d.addr,
              refresh_token |-> d.token_data.refresh_token,
              access_token |-> d.token_data.access_token,
              token_expires_at |-> d.token_data.token_expires_at])
         @@ google_accounts

\* the rows of canvas_accounts after the commit of link_canvas
LinkedCanvas(d) ==
    IF d.existing # 0
    THEN [canvas_accounts EXCEPT ![d.existing] =
             [@ EXCEPT !.api_token = d.token_data.api_token]]
    ELSE (NextId(canvas_accounts) :>
             [discord_user_id |-> d.user, canvas_url |-> d.addr,
              api_token |-> d.token_data.api_token])
         @@ canvas_accounts

\* what makes the store refuse the commit: the User row exists by now, the
\* row to update is gone, or the new row has no refresh token (NOT NULL)
Refused(d) ==
    \/ d.addUser /\ d.user \in users
    \/ /\ d.existing # 0
       /\ d.existing \notin (IF d.op = "google_callback"
                             THEN DOMAIN google_accounts
                             ELSE DOMAIN canvas_accounts)
    \/ /\ d.op = "google_callback"
       /\ d.existing = 0
       /\ d.token_data.refresh_token = NoToken

\* variant: the new User row is stored on its own, before the commit that
\* may be refused
LinkCommit_user_first(c) ==
    LET d == cmd[c] IN
    /\ d.pc = "commit"
    /\ \/ /\ ~Refused(d)
          /\ users' = users \cup {d.user}
          /\ google_accounts' = IF d.op = "google_callback"
                                THEN LinkedGoogle(d) ELSE google_accounts
          /\ canvas_accounts' = IF d.op = "link_canvas"
                                THEN LinkedCanvas(d) ELSE canvas_accounts
          /\ cmd' = [cmd EXCEPT ![c] = Finish(d, "linked")]
       \/ /\ users' = users \cup {d.user}
          /\ UNCHANGED <<google_accounts, canvas_accounts>>
          /\ cmd' = [cmd EXCEPT ![c] = Finish(d, "failed")]
    /\ UNCHANGED <<pending_oauth_states, call, cmds, sent_reminders, delivered, issued, now, today,
                   run, runs>>

\* "if existing: ... else: session.add(...)"; await session.commit()
LinkCommit(c) ==
    LET d == cmd[c] IN
    /\ d.pc = "commit"
    /\ \/ /\ ~Refused(d)
          /\ users' = users \cup {d.user}
          /\ google_accounts' = IF d.op = "google_callback"
                                THEN LinkedGoogle(d) ELSE google_accounts
          /\ canvas_accounts' = IF d.op = "link_canvas"
                                THEN LinkedCanvas(d) ELSE canvas_accounts
          /\ cmd' = [cmd EXCEPT ![c] = Finish(d, "linked")]
       \/ /\ UNCHANGED <<users, google_accounts, canvas_accounts>>
          /\ cmd' = [cmd EXCEPT ![c] = Finish(d, "failed")]
    /\ UNCHANGED <<pending_oauth_states, call, cmds, sent_reminders, delivered, issued, now, today,
                   run, runs>>

\* unlink_google / unlink_canvas: the query and "if not account: ... return"
UnlinkFind(c) ==
    LET d == cmd[c]
        M == IF d.op = "unlink_google" THEN FindGoogle(d.user, d.addr)
                                       ELSE FindCanvas(d.user, d.addr)
    IN
    /\ d.pc = "find"
    /\ d.op \in {"unlink_google", "unlink_canvas"}
    /\ cmd' = [cmd EXCEPT ![c] =
          CASE scalar_one_or_none(Cardinality(M)) = "none" -> Finish(d, "not_found")
            [] scalar_one_or_none(Cardinality(M)) = "one" ->
                   [d EXCEPT !.pc = "delete", !.existing = CHOOSE a \in M : TRUE]
            [] OTHER -> Finish(d, "failed")]
    /\ UNCHANGED <<pending_oauth_states, call, cmds, users, google_accounts, canvas_accounts,
                   sent_reminders, delivered, issued, now, today, run, runs>>

\* variant: the handler reports the unlink without deleting the row
UnlinkCommit_soft(c) ==
    LET d == cmd[c] IN
    /\ d.pc = "delete"
    /\ \/ cmd' = [cmd EXCEPT ![c] = Finish(d, "unlinked")]
       \/ cmd' = [cmd EXCEPT ![c] = Finish(d, "failed")]
    /\ UNCHANGED <<pending_oauth_states, call, cmds, users, google_accounts, canvas_accounts,
                   sent_reminders, delivered, issued, now, today, run, runs>>

\* await session.delete(account); await session.commit()
UnlinkCommit(c) ==
    LET d == cmd[c]
        Without(tbl) == [a \in DOMAIN tbl \ {d.existing} |-> tbl[a]]
    IN
    /\ d.pc = "delete"
    /\ \/ /\ google_accounts' = IF d.op = "unlink_google"
                                THEN Without(google_accounts) ELSE google_accounts
          /\ canvas_accounts' = IF d.op = "unlink_canvas"
                                THEN Without(canvas_accounts) ELSE canvas_accounts
          /\ cmd' = [cmd EXCEPT ![c] = Finish(d, "unlinked")]
       \/ /\ UNCHANGED <<google_accounts, canvas_accounts>>
          /\ cmd' = [cmd EXCEPT ![c] = Finish(d, "failed")]
    /\ UNCHANGED <<pending_oauth_states, call, cmds, users, sent_reminders, delivered, issued, now,
                   today, run, runs>>

\* /week, /month, /year: defer, user_id, then _get_all_events
view_calendar(c) ==
    \E u \in CmdUsers : Receive(c, "view", u, "", "v_load")

\* _get_all_events: select(GoogleAccount).where(discord_user_id == user_id)
ViewLoad(c) ==
    LET d   == cmd[c]
        ids == { a \in DOMAIN google_accounts :
                    google_accounts[a].discord_user_id = d.user }
    IN
    /\ d.pc = "v_load"
    /\ \E order \in Perms(ids) :
         cmd' = [cmd EXCEPT ![c] =
             IF order = <<>>
             THEN [d EXCEPT !.pc = "v_canvas"]
             ELSE [d EXCEPT !.pc = "v_fetch", !.accts = order, !.ai = 1,
                            !.view = [a \in ids |-> google_accounts[a]]]]
    /\ UNCHANGED <<pending_oauth_states, call, cmds, users, google_accounts, canvas_accounts,
                   sent_reminders, delivered, issued, now, today, run, runs>>

\* one turn of "for account in google_accounts": get_events, and for a
\* rotated token the assignment and "await session.commit()"; the commit of
\* a row that is gone raises, and "except Exception: pass" swallows it
ViewFetch(c) ==
    LET d == cmd[c]
        a == d.accts[d.ai]
        step(x) == IF x.ai < Len(x.accts)
                   THEN [x EXCEPT !.ai = @ + 1]
                   ELSE [x EXCEPT !.pc = "v_canvas"]
    IN
    /\ d.pc = "v_fetch"
    /\ \E in \in FetchInputs(d.view[a]) :
         LET res == GoogleFetch(d.view[a], in, REMINDER_DAYS_AHEAD * MinutesPerDay)
             rotated == [d.view[a] EXCEPT !.access_token = res.new_token,
                                          !.token_expires_at = res.new_expiry]
         IN
         /\ issued' = Issued(d.view[a], in)
         /\ IF res.raised \/ res.new_token = NoToken
            THEN /\ cmd' = [cmd EXCEPT ![c] = step(d)]
                 /\ UNCHANGED google_accounts
            ELSE /\ cmd' = [cmd EXCEPT ![c] = step([d EXCEPT !.view[a] = rotated])]
                 /\ \/ /\ a \in DOMAIN google_accounts
                       /\ google_accounts' =
                              [google_accounts EXCEPT ![a] =
                                  [@ EXCEPT !.access_token = res.new_token,
                                            !.token_expires_at = res.new_expiry]]
                    \/ UNCHANGED google_accounts
    /\ UNCHANGED <<pending_oauth_states, call, cmds, users, canvas_accounts, sent_reminders, delivered,
                   now, today, run, runs>>

\* select(CanvasAccount) and "for account in canvas_accounts": only reads;
\* then the calendar is rendered and sent
ViewCanvas(c) ==
    LET d == cmd[c] IN
    /\ d.pc = "v_canvas"
    /\ cmd' = [cmd EXCEPT ![c] = Finish(d, "shown")]
    /\ UNCHANGED <<pending_oauth_states, call, cmds, users, google_accounts, canvas_accounts,
                   sent_reminders, delivered, issued, now, today, run, runs>>

CommandStep(c) ==
    \/ view_calendar(c)
    \/ ViewLoad(c)
    \/ ViewFetch(c)
    \/ ViewCanvas(c)
    \/ google_callback(c)
    \/ link_canvas(c)
    \/ unlink_google(c)
    \/ unlink_canvas(c)
    \/ LinkVerify(c)
    \/ LinkUser(c)
    \/ LinkFind(c)
    \/ LinkCommit(c)
    \/ UnlinkFind(c)
    \/ UnlinkCommit(c)

\* The commands on their own: interactions arrive whenever they like and
\* their handlers interleave at their awaits.
NextLink ==
    \/ \E c \in CmdTasks : CommandStep(c)
    \/ \E c \in CmdTasks : link_google(c)

SpecLink == Init /\ [][NextLink]_vars

\* The store under every kind of writer at once: commands handled one after
\* the other next to runs of the announcement job on one scheduler task.
StoreTask == CHOOSE t \in Tasks : \A s \in Tasks : t <= s

StoreCmdTask == CHOOSE c \in CmdTasks : \A d \in CmdTasks : c <= d

\* runs of the job next to the commands
MaxStoreRuns == 1

NextStore ==
    \/ CommandStep(StoreCmdTask)
    \/ runs < MaxStoreRuns /\ StartRun(StoreTask, "announcement_check")
    \/ AnnLoad(StoreTask)
    \/ AnnFetch(StoreTask)
    \/ AnnCheck(StoreTask)
    \/ AnnSend(StoreTask)
    \/ AnnCommit(StoreTask)
    \/ CloseSession(StoreTask)

SpecStore == Init /\ [][NextStore]_vars

\* One worker of the event loop running the job bodies one after the other.
\* Every await of a running body is eventually resumed: the external call
\* it waits for returns or raises, and the loop then schedules the body.
NextLive ==
    \/ \E job \in Jobs : StartRun(StoreTask, job)
    \/ JobStep(StoreTask)

SpecLive == Init /\ [][NextLive]_vars /\ WF_vars(JobStep(StoreTask))

\* Unlinking and linking again before a run of the hour-before job: a
\* command is handled while no run executes, a run starts while no command
\* is being handled.  An earlier run has reminded user 101 of evt1 of a@g
\* and recorded it.
InitUnlink ==
    /\ users = {"101"}
    /\ google_accounts =
           (1 :> GoogleAccount("101", "a@g", 0, NoTime)) @@
           (2 :> GoogleAccount("101", "b@g", 0, NoTime))
    /\ canvas_accounts = << >>
    /\ sent_reminders = SetToBag({SentReminder("101", "hour_before", "evt1", 140)})
    /\ delivered = SetToBag({[user |-> "101", kind |-> "hour_before",
                              key |-> "evt1", day |-> 0]})
    /\ issued = 0
    /\ now = 100
    /\ today = 0
    /\ run = [t \in Tasks |-> IdleRun]
    /\ runs = 0
    /\ call = NoCall
    /\ cmd = [c \in CmdTasks |-> IdleCmd]
    /\ cmds = 0
    /\ pending_oauth_states = << >>

NextUnlink ==
    \/ ~Running(StoreTask) /\ unlink_google(StoreCmdTask)
    \/ ~Running(StoreTask) /\ google_callback(StoreCmdTask)
    \/ LinkVerify(StoreCmdTask)
    \/ LinkUser(StoreCmdTask)
    \/ LinkFind(StoreCmdTask)
    \/ LinkCommit(StoreCmdTask)
    \/ UnlinkFind(StoreCmdTask)
    \/ UnlinkCommit(StoreCmdTask)
    \/ /\ cmd[StoreCmdTask].pc \in {"idle", "done"}
       /\ runs < MaxStoreRuns
       /\ StartRun(StoreTask, "hour_before_check")
    \/ HourLoad(StoreTask)
    \/ HourFetch(StoreTask)
    \/ HourCheck(StoreTask)
    \/ HourSend(StoreTask)
    \/ HourCommit(StoreTask)
    \/ CloseSession(StoreTask)

SpecUnlink == InitUnlink /\ [][NextUnlink]_vars

(***************************************************************************)
(* The interval jobs over time: a run, and then the next scheduled run of  *)
(* the same job one interval later.                                        *)
(***************************************************************************)
\* IntervalTrigger(minutes=...) of the two interval jobs
Interval(job) == IF job = "hour_before_check"
                 THEN HOUR_BEFORE_CHECK_INTERVAL
                 ELSE ANNOUNCEMENT_CHECK_INTERVAL

IntervalJobs == {"hour_before_check", "announcement_check"}

\* the job body returns, its session closes, and the trigger fires the job
\* again one interval later; the deliveries that failed in the run that
\* ended are remembered in retry
NextScheduledRun(t) ==
    LET r == run[t] IN
    /\ r.pc = "exit"
    /\ r.job \in IntervalJobs
    /\ runs < MaxRuns
    /\ runs' = runs + 1
    /\ now' = now + Interval(r.job)
    /\ run' = [run EXCEPT ![t] = [IdleRun EXCEPT !.job = r.job,
                                                 !.pc = FirstPc(r.job),
                                                 !.retry = r.sendFail]]
    /\ UNCHANGED <<pending_oauth_states, call, cmd, cmds, users, google_accounts, canvas_accounts,
                   sent_reminders, delivered, issued, today>>

NextTimed ==
    \/ \E job \in IntervalJobs : runs = 0 /\ StartRun(StoreTask, job)
    \/ HourLoad(StoreTask)
    \/ HourFetch(StoreTask)
    \/ HourCheck(StoreTask)
    \/ HourSend(StoreTask)
    \/ HourCommit(StoreTask)
    \/ AnnLoad(StoreTask)
    \/ AnnFetch(StoreTask)
    \/ AnnCheck(StoreTask)
    \/ AnnSend(StoreTask)
    \/ AnnCommit(StoreTask)
    \/ NextScheduledRun(StoreTask)
    \/ CloseSession(StoreTask)

SpecTimed == Init /\ [][NextTimed]_vars

(***************************************************************************)
(* The interval jobs for a user whose calendar holds an event whose        *)
(* provider id is the same string as the key of an announcement.           *)
(***************************************************************************)
InitKinds ==
    /\ users = {"101"}
    /\ google_accounts = (1 :> GoogleAccount("101", "k@g", 0, NoTime))
    /\ canvas_accounts = (1 :> CanvasAccount("101", "https://canvas.x"))
    /\ sent_reminders = EmptyBag
    /\ delivered = EmptyBag
    /\ issued = 0
    /\ now = 100
    /\ today = 0
    /\ run = [t \in Tasks |-> IdleRun]
    /\ runs = 0
    /\ call = NoCall
    /\ cmd = [c \in CmdTasks |-> IdleCmd]
    /\ cmds = 0
    /\ pending_oauth_states = << >>

NextKinds ==
    \/ \E t \in Tasks, job \in IntervalJobs : StartRun(t, job)
    \/ \E t \in Tasks : HourLoad(t)
    \/ \E t \in Tasks : HourFetch(t)
    \/ \E t \in Tasks : HourCheck(t)
    \/ \E t \in Tasks : HourSend(t)
    \/ \E t \in Tasks : HourCommit(t)
    \/ \E t \in Tasks : AnnLoad(t)
    \/ \E t \in Tasks : AnnFetch(t)
    \/ \E t \in Tasks : AnnCheck(t)
    \/ \E t \in Tasks : AnnSend(t)
    \/ \E t \in Tasks : AnnCommit(t)
    \/ \E t \in Tasks : CloseSession(t)

SpecKinds == InitKinds /\ [][NextKinds]_vars

(***************************************************************************)
(* The hour-before job for a user whose calendars answer in several pages. *)
(***************************************************************************)
InitPages ==
    /\ users = {"101"}
    /\ google_accounts =
           (1 :> GoogleAccount("101", "d@g", 0, NoTime)) @@
           (2 :> GoogleAccount("101", "b@g", 0, NoTime))
    /\ canvas_accounts = << >>
    /\ sent_reminders = EmptyBag
    /\ delivered = EmptyBag
    /\ issued = 0
    /\ now = 100
    /\ today = 0
    /\ run = [t \in Tasks |-> IdleRun]
    /\ runs = 0
    /\ call = NoCall
    /\ cmd = [c \in CmdTasks |-> IdleCmd]
    /\ cmds = 0
    /\ pending_oauth_states = << >>

NextPages ==
    \/ \E t \in Tasks : StartRun(t, "hour_before_check")
    \/ \E t \in Tasks : HourLoad(t)
    \/ \E t \in Tasks : HourFetch(t)
    \/ \E t \in Tasks : HourCheck(t)
    \/ \E t \in Tasks : HourSend(t)
    \/ \E t \in Tasks : HourCommit(t)
    \/ \E t \in Tasks : CloseSession(t)

SpecPages == InitPages /\ [][NextPages]_vars

\* An event both calendars of one user hold (an invitation sent to both
\* addresses has one provider id): user 101 links e@g and f@g, and the
\* hour-before job runs.
InitShared ==
    /\ users = {"101"}
    /\ google_accounts =
           (1 :> GoogleAccount("101", "e@g", 0, NoTime)) @@
           (2 :> GoogleAccount("101", "f@g", 0, NoTime))
    /\ canvas_accounts = << >>
    /\ sent_reminders = EmptyBag
    /\ delivered = EmptyBag
    /\ issued = 0
    /\ now = 100
    /\ today = 0
    /\ run = [t \in Tasks |-> IdleRun]
    /\ runs = 0
    /\ call = NoCall
    /\ cmd = [c \in CmdTasks |-> IdleCmd]
    /\ cmds = 0
    /\ pending_oauth_states = << >>

NextShared ==
    \/ \E t \in Tasks : StartRun(t, "hour_before_check")
    \/ \E t \in Tasks : HourLoad(t)
    \/ \E t \in Tasks : HourFetch(t)
    \/ \E t \in Tasks : HourCheck(t)
    \/ \E t \in Tasks : HourSend(t)
    \/ \E t \in Tasks : HourCommit(t)
    \/ \E t \in Tasks : CloseSession(t)

SpecShared == InitShared /\ [][NextShared]_vars

\* Two users whose calendars hold the same event: user 101 links e@g, user
\* 102 links f@g and a Canvas account; the daily and the hour-before job run.
InitTwoUsers ==
    /\ users = {"101", "102"}
    /\ google_accounts =
           (1 :> GoogleAccount("101", "e@g", 0, NoTime)) @@
           (2 :> GoogleAccount("102", "f@g", 0, NoTime))
    /\ canvas_accounts = (1 :> CanvasAccount("102", "https://canvas.y"))
    /\ sent_reminders = EmptyBag
    /\ delivered = EmptyBag
    /\ issued = 0
    /\ now = 100
    /\ today = 0
    /\ run = [t \in Tasks |-> IdleRun]
    /\ runs = 0
    /\ call = NoCall
    /\ cmd = [c \in CmdTasks |-> IdleCmd]
    /\ cmds = 0
    /\ pending_oauth_states = << >>

NextTwoUsers ==
    \/ \E t \in Tasks, job \in {"daily_summary", "hour_before_check"} : StartRun(t, job)
    \/ \E t \in Tasks : DailyUsers(t)
    \/ \E t \in Tasks : DailyCheck(t)
    \/ \E t \in Tasks : DailyLoadGoogle(t)
    \/ \E t \in Tasks : DailyFetchGoogle(t)
    \/ \E t \in Tasks : DailyLoadCanvas(t)
    \/ \E t \in Tasks : DailyFetchCanvas(t)
    \/ \E t \in Tasks : DailySend(t)
    \/ \E t \in Tasks : DailyCommit(t)
    \/ \E t \in Tasks : HourLoad(t)
    \/ \E t \in Tasks : HourFetch(t)
    \/ \E t \in Tasks : HourCheck(t)
    \/ \E t \in Tasks : HourSend(t)
    \/ \E t \in Tasks : HourCommit(t)
    \/ \E t \in Tasks : CloseSession(t)

SpecTwoUsers == InitTwoUsers /\ [][NextTwoUsers]_vars

(***************************************************************************)
(* The tasks that fetch with one Google account at the same time: the      *)
(* daily job, the hour-before job and a view command.  The stored token is *)
(* one generation older than in Init, so that two refreshes happen within  *)
(* the numbers the provider issues.                                        *)
(***************************************************************************)
InitRotate ==
    /\ users = {"101"}
    /\ google_accounts = (1 :> GoogleAccount("101", "a@g", 0 - 1, 104))
    /\ canvas_accounts = << >>
    /\ sent_reminders = EmptyBag
    /\ delivered = EmptyBag
    /\ issued = 0 - 1
    /\ now = 100
    /\ today = 0
    /\ run = [t \in Tasks |-> IdleRun]
    /\ runs = 0
    /\ call = NoCall
    /\ cmd = [c \in CmdTasks |-> IdleCmd]
    /\ cmds = 0
    /\ pending_oauth_states = << >>

NextRotate ==
    \/ \E t \in Tasks, job \in {"daily_summary", "hour_before_check"} :
            StartRun(t, job)
    \/ \E t \in Tasks : DailyUsers(t)
    \/ \E t \in Tasks : DailyCheck(t)
    \/ \E t \in Tasks : DailyLoadGoogle(t)
    \/ \E t \in Tasks : DailyFetchGoogle(t)
    \/ \E t \in Tasks : DailyLoadCanvas(t)
    \/ \E t \in Tasks : DailySend(t)
    \/ \E t \in Tasks : DailyCommit(t)
    \/ \E t \in Tasks : HourLoad(t)
    \/ \E t \in Tasks : HourFetch(t)
    \/ \E t \in Tasks : HourCheck(t)
    \/ \E t \in Tasks : HourSend(t)
    \/ \E t \in Tasks : HourCommit(t)
    \/ \E t \in Tasks : CloseSession(t)
    \/ view_calendar(StoreCmdTask)
    \/ ViewLoad(StoreCmdTask)
    \/ ViewFetch(StoreCmdTask)
    \/ ViewCanvas(StoreCmdTask)

SpecRotate == InitRotate /\ [][NextRotate]_vars

(***************************************************************************)
(* The event loop.  The scheduler is an AsyncIOScheduler: triggers are     *)
(* evaluated and job bodies run as callbacks of one thread.  A job body    *)
(* gives the thread back at each await; credentials.refresh(Request()) in  *)
(* _get_valid_token is a synchronous HTTP request with no await, so the    *)
(* thread stays inside it until the provider has answered.                 *)
(***************************************************************************)
\* the synchronous refresh the loop thread is executing, or has just left
Refreshing(t, a, phase) ==
    [fn |-> "credentials.refresh", task |-> t, acct |-> a, run |-> runs,
     phase |-> phase]

\* the account an hour-before run is about to fetch needs a refresh
RefreshDue(t) ==
    /\ run[t].pc = "h_fetch"
    /\ NeedsRefresh(run[t].view[run[t].accts[run[t].ai]], now)

\* the loop thread is inside credentials.refresh
Blocked == call.fn = "credentials.refresh" /\ call.phase = "running"

\* get_events is called, _get_valid_token reaches credentials.refresh(Request())
EnterRefresh(t) ==
    LET a == run[t].accts[run[t].ai] IN
    /\ ~Blocked
    /\ RefreshDue(t)
    /\ call # Refreshing(t, a, "returned")
    /\ call' = Refreshing(t, a, "running")
    /\ UNCHANGED <<pending_oauth_states, cmd, cmds, users, google_accounts, canvas_accounts,
                   sent_reminders, delivered, issued, now, today, run, runs>>

\* the provider has answered (or the request has failed) and refresh returns
ReturnRefresh(t) ==
    /\ run[t].pc = "h_fetch"
    /\ call = Refreshing(t, run[t].accts[run[t].ai], "running")
    /\ call' = Refreshing(t, run[t].accts[run[t].ai], "returned")
    /\ UNCHANGED <<pending_oauth_states, cmd, cmds, users, google_accounts, canvas_accounts,
                   sent_reminders, delivered, issued, now, today, run, runs>>

\* one callback of task t on the loop thread: the trigger starts a job on
\* it, or its job body runs up to its next await
LoopTurn(t) ==
    /\ ~Blocked
    /\ \/ \E job \in IntervalJobs : StartRun(t, job)
       \/ HourLoad(t)
       \/ /\ RefreshDue(t) =>
                call = Refreshing(t, run[t].accts[run[t].ai], "returned")
          /\ HourFetch(t)
       \/ HourCheck(t)
       \/ HourSend(t)
       \/ HourCommit(t)
       \/ AnnLoad(t)
       \/ AnnFetch(t)
       \/ AnnCheck(t)
       \/ AnnSend(t)
       \/ AnnCommit(t)
       \/ CloseSession(t)

NextLoop ==
    \/ \E t \in Tasks : LoopTurn(t)
    \/ \E t \in Tasks : EnterRefresh(t)
    \/ \E t \in Tasks : ReturnRefresh(t)

SpecLoop == Init /\ [][NextLoop]_vars

(***************************************************************************)
(* The daily summary's list of calendar items.  An item's "date" is the    *)
(* string the provider sent: start.dateTime, an ISO timestamp with the UTC *)
(* offset of the calendar's time zone, or start.date for an all-day item.  *)
(* A string is modelled by the sequence of its character codes.            *)
(***************************************************************************)
\* the UTC offsets (hours) of the calendars' time zones
Offsets == {0 - 8, 1}

\* the starts there are: days of January 2024, all-day or at a full hour
Stamps(off) ==
    { [day |-> d, allday |-> TRUE, hh |-> 0, off |-> off] : d \in {10, 11} }
    \cup
    { [day |-> d, allday |-> FALSE, hh |-> h, off |-> off] :
          d \in {10, 11}, h \in {1, 23} }

\* the instant an item starts, in minutes of UTC
Instant(st) == st.day * MinutesPerDay + st.hh * MinutesPerHour
                   - st.off * MinutesPerHour

\* two decimal digits as character codes
TwoDigits(n) == << 48 + (n \div 10), 48 + (n % 10) >>

\* start.date "2024-01-DD" or start.dateTime "2024-01-DDTHH:00:00+HH:00"
IsoChars(st) ==
    LET day  == << 50, 48, 50, 52, 45, 48, 49, 45 >> \o TwoDigits(st.day)
        sign == IF st.off < 0 THEN << 45 >> ELSE << 43 >>
        abs  == IF st.off < 0 THEN 0 - st.off ELSE st.off
    IN  IF st.allday
        THEN day
        ELSE day \o << 84 >> \o TwoDigits(st.hh) \o << 58, 48, 48, 58, 48, 48 >>
                 \o sign \o TwoDigits(abs) \o << 58, 48, 48 >>

\* Python's <= on str: by code point, a proper prefix first
StrLeq(a, b) ==
    LET common == { i \in DOMAIN a \cap DOMAIN b : a[i] # b[i] } IN
    IF common = {}
    THEN Len(a) <= Len(b)
    ELSE LET i == CHOOSE k \in common : \A m \in common : k <= m
         IN  a[i] < b[i]

\* sorted(google_events, key=lambda e: e.get("date", "")): stable, by string
RECURSIVE SortIdxStr(_, _)
SortIdxStr(keys, n) ==
    IF n = 0 THEN <<>>
    ELSE LET prev == SortIdxStr(keys, n - 1)
             pos  == Cardinality({ i \in DOMAIN prev : StrLeq(keys[prev[i]], keys[n]) })
         IN  SubSeq(prev, 1, pos) \o <<n>> \o SubSeq(prev, pos + 1, n - 1)

\* sorted(...)[:10]
RenderLimit == 10

\* render_daily_summary_embed: the Google Calendar lines, in their order
render_daily_summary_embed(google_events) ==
    LET n   == Len(google_events)
        idx == SortIdxStr([i \in 1..n |-> IsoChars(google_events[i].date)], n)
        m   == IF n < RenderLimit THEN n ELSE RenderLimit
    IN  [i \in 1..m |-> google_events[idx[i]]]

\* what one account's get_upcoming_events returns: at most two items of the
\* calendar's time zone, in the provider's order (orderBy=startTime)
AccountEvents(off) ==
    { <<>> } \cup { << [date |-> x] >> : x \in Stamps(off) }
    \cup { << [date |-> p[1]], [date |-> p[2]] >> :
               p \in { q \in Stamps(off) \X Stamps(off) :
                          Instant(q[1]) <= Instant(q[2]) } }

\* _send_user_daily_summary: google_events.extend(events) account by account,
\* then the renderer
RenderCall ==
    /\ call = NoCall
    /\ \E offA \in Offsets, offB \in Offsets :
         \E evA \in AccountEvents(offA), evB \in AccountEvents(offB) :
            call' = [fn |-> "render_daily_summary_embed",
                     google_events |-> evA \o evB,
                     lines |-> render_daily_summary_embed(evA \o evB)]
    /\ UNCHANGED <<pending_oauth_states, cmd, cmds, users, google_accounts, canvas_accounts,
                   sent_reminders, delivered, issued, now, today, run, runs>>

SpecRender == Init /\ [][RenderCall]_vars


(***************************************************************************)
(* The calendar client on its own: one call of get_upcoming_events or      *)
(* get_events_starting_soon, for every stored credential and every answer  *)
(* of the provider.                                                        *)
(***************************************************************************)
\* the expiry a stored token can have, around the refresh margin at the
\* clock's time
ClientExpiries == {NoTime, 95, 100, 104, 105, 106, 200}

\* the provider answers 401 to a request that carries a token past its expiry
ProviderRejects(acct, v) ==
    /\ v.new_token = NoToken
    /\ acct.token_expires_at # NoTime
    /\ now >= acct.token_expires_at

ClientCall ==
    /\ \E email \in DOMAIN GoogleCalendar,
          rt \in {NoToken, encrypt_token("r")},
          exp \in ClientExpiries,
          m \in {1 * MinutesPerHour, REMINDER_DAYS_AHEAD * MinutesPerDay} :
         LET acct == [discord_user_id |-> "101", account_email |-> email,
                      refresh_token |-> rt, access_token |-> encrypt_token(0),
                      token_expires_at |-> exp]
             v(in) == _get_valid_token(acct.access_token, acct.refresh_token,
                                       acct.token_expires_at, now, in.refresh)
         IN  \E in \in FetchInputs(acct) :
               /\ ProviderRejects(acct, v(in)) => (in.raise \/ in.failAt = 1)
               /\ call' = [fn |-> "get_events", acct |-> acct, in |-> in,
                           minutes |-> m,
                           valid |-> v(in),
                           result |-> GoogleFetch(acct, in, m)]
    /\ UNCHANGED <<pending_oauth_states, cmd, cmds, users, google_accounts, canvas_accounts,
                   sent_reminders, delivered, issued, now, today, run, runs>>

SpecClient == Init /\ [][ClientCall]_vars

(***************************************************************************)
(* What is counted: the rows of the ledger and the messages delivered, per *)
(* (user, kind, key).                                                      *)
(***************************************************************************)
LedgerCount(u, k, key) ==
    LET M == { x \in BagToSet(sent_reminders) : /\ x.discord_user_id = u
                                                /\ x.reminder_type = k
                                                /\ x.event_id = key }
    IN  BagCardinality([x \in M |-> sent_reminders[x]])

DeliveredIn(B, u, k, key) ==
    LET M == { x \in BagToSet(B) : x.user = u /\ x.kind = k /\ x.key = key }
    IN  BagCardinality([x \in M |-> B[x]])

DeliveredCount(u, k, key) == DeliveredIn(delivered, u, k, key)

PendingCount(u, k, key) ==
    Cardinality({ t \in Tasks : \E x \in run[t].pending :
                      /\ x.discord_user_id = u
                      /\ x.reminder_type = k
                      /\ x.event_id = key })

\* the (user, kind, key) of the rows and of the deliveries there are
Triples ==
    { <<x.discord_user_id, x.reminder_type, x.event_id>> :
          x \in BagToSet(sent_reminders)
                  \cup UNION { run[t].pending : t \in Tasks } }
    \cup { <<x.user, x.kind, x.key>> : x \in BagToSet(delivered) }

(***************************************************************************)
(* C1.  For every (user, kind, key) the ledger holds at most one row and   *)
(* the user receives at most one notification, also when the same job body *)
(* runs twice at the same time against one store.                          *)
(***************************************************************************)
C1_AtMostOneRowAndDelivery ==
    \A x \in Triples :
        /\ LedgerCount(x[1], x[2], x[3]) <= 1
        /\ DeliveredCount(x[1], x[2], x[3]) <= 1

(***************************************************************************)
(* C2.  A user receives at most one daily summary per calendar day,        *)
(* however often the daily job is invoked and wherever the process is      *)
(* stopped and restarted.                                                  *)
(***************************************************************************)
C2_OneDailySummaryPerDay ==
    \A x \in Triples :
        x[2] = "daily_summary" => DeliveredCount(x[1], x[2], x[3]) <= 1

(***************************************************************************)
(* C3.  For hour-before reminders and announcements: over any sequence of  *)
(* runs, abandoned wherever they stand, no (user, kind, key) is delivered  *)
(* twice, and no row is left in the ledger for an item never delivered.    *)
(***************************************************************************)
C3_AbandonedRunsNeverDuplicate ==
    \A x \in Triples :
        x[2] \in {"hour_before", "announcement"} =>
            /\ DeliveredCount(x[1], x[2], x[3]) <= 1
            /\ LedgerCount(x[1], x[2], x[3]) >= 1 =>
                   DeliveredCount(x[1], x[2], x[3]) >= 1

(***************************************************************************)
(* C4.  Every ledger row, committed or awaiting commit, was written after  *)
(* a delivery of exactly its (user, kind, key) succeeded: there are never  *)
(* more rows than deliveries, and a delivery that failed writes no row.    *)
(***************************************************************************)
C4_RowOnlyAfterDelivery ==
    /\ \A x \in Triples :
           LedgerCount(x[1], x[2], x[3]) + PendingCount(x[1], x[2], x[3])
               <= DeliveredCount(x[1], x[2], x[3])
    /\ \A t \in Tasks : \A m \in run[t].sendFail :
           \A x \in run[t].pending :
               <<x.discord_user_id, x.reminder_type, x.event_id>>
                   # <<m.user, m.kind, m.key>>

\* a delivery that failed stands next to one that succeeded and was recorded
C4_Witness ==
    \E t \in Tasks :
        /\ run[t].job = "hour_before_check"
        /\ run[t].sendFail # {}
        /\ \A m \in run[t].sendFail : LedgerCount(m.user, m.kind, m.key) = 0
        /\ \E x \in BagToSet(sent_reminders) : x.reminder_type = "hour_before"

(***************************************************************************)
(* C5.  Once the ledger holds (user, kind, key), no later step of any run  *)
(* delivers that triple again or adds a row for it.                        *)
(***************************************************************************)
C5_Step ==
    \A x \in BagToSet(sent_reminders) :
        LET u == x.discord_user_id  k == x.reminder_type  key == x.event_id
            M == { y \in BagToSet(sent_reminders') : /\ y.discord_user_id = u
                                                     /\ y.reminder_type = k
                                                     /\ y.event_id = key }
        IN  /\ DeliveredIn(delivered', u, k, key) = DeliveredIn(delivered, u, k, key)
            /\ BagCardinality([y \in M |-> sent_reminders'[y]]) = LedgerCount(u, k, key)
            /\ \A t \in Tasks : \A y \in run'[t].pending :
                   <<y.discord_user_id, y.reminder_type, y.event_id>> # <<u, k, key>>

C5_Idempotent == [][C5_Step]_vars

\* a run was handed an event whose row an earlier run had committed, and
\* has gone past it without sending
C5_Witness ==
    \E t \in Tasks :
        LET r == run[t] IN
        /\ r.job = "hour_before_check"
        /\ r.pc = "h_check"
        /\ r.ai = 1 /\ r.ei = 2
        /\ r.pending = {} /\ r.sendFail = {}
        /\ r.got[r.accts[1]].status = "ok"
        /\ LedgerCount(r.view[r.accts[1]].discord_user_id, "hour_before",
                       r.events[1].id) = 1

(***************************************************************************)
(* C6.  A daily-summary run whose fetches gave no item for a user neither  *)
(* delivers to that user nor records anything: the run only sends, and     *)
(* only has a row awaiting commit, with a non-empty list of items.         *)
(***************************************************************************)
C6_NothingToSendNothingSent ==
    \A t \in Tasks :
        run[t].pc \in {"d_send", "d_commit"} =>
            (run[t].events # <<>> \/ run[t].assignments # <<>>)

\* a run has ended whose last user's accounts all answered with no item,
\* and nothing was delivered or recorded
C6_Witness ==
    \E t \in Tasks :
        LET r == run[t] IN
        /\ r.job = "daily_summary"
        /\ r.pc = "exit"
        /\ DOMAIN r.got # {} /\ DOMAIN r.gotC # {}
        /\ \A a \in DOMAIN r.got : r.got[a].status = "ok"
        /\ \A c \in DOMAIN r.gotC : r.gotC[c].status = "ok"
        /\ r.events = <<>> /\ r.assignments = <<>>
        /\ delivered = EmptyBag
        /\ sent_reminders = EmptyBag

(***************************************************************************)
(* C7.  A daily-summary run for a user who already has today's row loads   *)
(* no account, fetches nothing, delivers nothing and changes no            *)
(* credential: it is past the check only when there is no such row.        *)
(***************************************************************************)
C7_SentTodayMeansNoWork ==
    \A t \in Tasks :
        run[t].pc \in {"d_loadG", "d_fetchG", "d_loadC", "d_fetchC", "d_send"} =>
            LedgerCount(run[t].users[run[t].ui], "daily_summary",
                        DateIso(run[t].today)) = 0

\* a run has gone past a user with accounts whose row for today was there:
\* it loaded no account and changed none
C7_Witness ==
    \E t \in Tasks :
        LET r == run[t] IN
        /\ r.job = "daily_summary"
        /\ r.pc = "d_check"
        /\ r.ui = 2
        /\ \E a \in DOMAIN google_accounts :
               google_accounts[a].discord_user_id = r.users[1]
        /\ LedgerCount(r.users[1], "daily_summary", DateIso(today)) = 1
        /\ r.view = <<>> /\ r.dirty = {} /\ r.pending = {}

(***************************************************************************)
(* C8.  At the end of an hour-before run every account was tried, and      *)
(* every item of every account whose fetch and bookkeeping succeeded has   *)
(* been delivered and recorded (or its delivery failed), whatever the      *)
(* other accounts' fetches did and in whatever order they were tried.      *)
(***************************************************************************)
C8_HealthyAccountsServed ==
    \A t \in Tasks :
        LET r == run[t] IN
        (r.job = "hour_before_check" /\ r.pc = "exit") =>
            /\ DOMAIN r.got = Range(r.accts)
            /\ \A a \in DOMAIN r.got :
                   r.got[a].status = "ok" =>
                       \A i \in DOMAIN r.got[a].events :
                           LET u  == r.view[a].discord_user_id
                               id == r.got[a].events[i].id
                           IN  \/ /\ LedgerCount(u, "hour_before", id) >= 1
                                  /\ DeliveredCount(u, "hour_before", id) >= 1
                               \/ Message(u, "hour_before", id) \in r.sendFail

\* the first account's fetch raised and the second account's items are
\* delivered and recorded at the end of the same run
C8_Witness ==
    \E t \in Tasks :
        LET r == run[t] IN
        /\ r.job = "hour_before_check"
        /\ r.pc = "exit"
        /\ runs = 1
        /\ r.got[r.accts[1]].status = "raised"
        /\ r.got[r.accts[2]].status = "ok"
        /\ r.got[r.accts[2]].events # <<>>
        /\ \A i \in DOMAIN r.got[r.accts[2]].events :
               /\ LedgerCount(r.view[r.accts[2]].discord_user_id, "hour_before",
                              r.got[r.accts[2]].events[i].id) = 1
               /\ DeliveredCount(r.view[r.accts[2]].discord_user_id, "hour_before",
                                 r.got[r.accts[2]].events[i].id) = 1

(***************************************************************************)
(* C9.  In a daily-summary run every account of the user is tried, and the *)
(* summary that is delivered holds every item of every account whose fetch *)
(* succeeded: a fetch that failed leaves out that account's items only.    *)
(***************************************************************************)
C9_SummaryHoldsTheOthers ==
    \A t \in Tasks :
        LET r == run[t] IN
        r.pc = "d_commit" =>
            LET u == r.users[r.ui] IN
            /\ DOMAIN r.got = { a \in DOMAIN google_accounts :
                                    google_accounts[a].discord_user_id = u }
            /\ \A a \in DOMAIN r.got :
                   r.got[a].status = "ok" =>
                       Range(r.got[a].events) \subseteq Range(r.sent.google)
            /\ \A c \in DOMAIN r.gotC :
                   r.gotC[c].status = "ok" =>
                       Range(r.gotC[c].events) \subseteq Range(r.sent.canvas)

\* the first calendar account's fetch raised; the summary delivered holds
\* the items of the second one and of the course account
C9_Witness ==
    \E t \in Tasks :
        LET r == run[t] IN
        /\ r.pc = "d_commit"
        /\ \E a, b \in DOMAIN r.got :
               /\ r.got[a].status = "raised"
               /\ r.got[b].status = "ok"
               /\ r.got[b].events # <<>>
               /\ Range(r.got[b].events) \subseteq Range(r.sent.google)
        /\ r.sent.canvas # <<>>
        /\ DeliveredCount(r.users[r.ui], "daily_summary", DateIso(r.today)) = 1

(***************************************************************************)
(* C10.  In the daily batch an error raised while one user is handled      *)
(* never aborts the batch: the run never ends in an exception while users  *)
(* are left to handle.                                                     *)
(***************************************************************************)
C10_BatchNeverAborted ==
    \A t \in Tasks :
        (run[t].job = "daily_summary" /\ run[t].pc = "failed" /\ run[t].ui >= 1)
            => run[t].ui = Len(run[t].users)

(***************************************************************************)
(* C11.  A token rotation returned by a fetch of the daily-summary job is  *)
(* in the account's row by the end of the run: when the run has left its   *)
(* loop, no account whose token it rotated still has the old token stored. *)
(***************************************************************************)
C11_RotationPersistedByEndOfRun ==
    \A t \in Tasks :
        LET r == run[t] IN
        (r.job = "daily_summary" /\ r.pc = "exit") =>
            \A a \in r.dirty :
                /\ google_accounts[a].access_token = r.view[a].access_token
                /\ google_accounts[a].token_expires_at = r.view[a].token_expires_at

(***************************************************************************)
(* C12.  No job is executing in two instances at the same time: two tasks  *)
(* that are executing job bodies execute different jobs.                   *)
(***************************************************************************)
C12_OneInstancePerJob ==
    \A s, t \in Tasks :
        (s # t /\ Running(s) /\ Running(t)) => run[s].job # run[t].job

\* two different jobs execute in parallel, both in the middle of their bodies
C12_Witness ==
    \E s, t \in Tasks :
        /\ run[s].job = "daily_summary" /\ run[s].pc = "d_fetchG"
        /\ run[t].job = "hour_before_check" /\ run[t].pc = "h_send"

(***************************************************************************)
(* C13.  An exception that escapes a job body does not stop the scheduler: *)
(* after it, every job that is not executing, the failed one included, can *)
(* be started at its next trigger.                                         *)
(***************************************************************************)
C13_SchedulerSurvivesFailure ==
    \A t \in Tasks :
        (run[t].pc = "failed" /\ runs < MaxRuns) =>
            \A job \in Jobs :
                (\A s \in Tasks : \/ run[s].pc \in {"idle", "done", "failed"}
                                  \/ run[s].job # job)
                    => ENABLED (\E s \in Tasks : StartRun(s, job))

\* the daily job was left by an exception while handling its first user
C13_Witness ==
    \E t \in Tasks :
        /\ run[t].pc = "failed"
        /\ run[t].job = "daily_summary"
        /\ run[t].ui = 1
        /\ runs < MaxRuns

(***************************************************************************)
(* C14.  A row for a (user, kind, key) that a concurrent writer has        *)
(* already stored is refused by the store and the run skips it: the ledger *)
(* never holds a second row for a key, whatever runs overlap.              *)
(***************************************************************************)
C14_ConflictStoresNoSecondRow ==
    \A x, y \in BagToSet(sent_reminders) :
        /\ sent_reminders[x] = 1
        /\ (/\ x.discord_user_id = y.discord_user_id
            /\ x.reminder_type = y.reminder_type
            /\ x.event_id = y.event_id) => x = y

C16_RefreshExactlyWhenDue ==
    (call.fn = "get_events" /\ ~call.result.raised) =>
        LET due == /\ call.acct.token_expires_at # NoTime
                   /\ now >= call.acct.token_expires_at - 5
                   /\ call.acct.refresh_token # NoToken
        IN  /\ due => /\ call.valid.token = call.in.refresh.token
                      /\ call.result.new_token = encrypt_token(call.in.refresh.token)
                      /\ call.result.new_expiry = call.in.refresh.expiry
            /\ ~due => /\ call.valid.token = decrypt_token(call.acct.access_token)
                       /\ call.result.new_token = NoToken
                       /\ call.result.new_expiry = NoTime

\* a token that expires in exactly 5 minutes was refreshed and the rotated
\* token returned
C16_Witness ==
    /\ call.fn = "get_events"
    /\ call.acct.token_expires_at = now + 5
    /\ ~call.result.raised
    /\ call.result.new_token # NoToken
    /\ call.result.new_expiry # NoTime

(***************************************************************************)
(* C17.  A fetch whose page requests are all answered returns the items of *)
(* every page of the window, in page order, each once; in any case it      *)
(* returns the items of the pages it was answered, in order, each once.    *)
(***************************************************************************)
C17_AllPagesInOrder ==
    (call.fn = "get_events" /\ ~call.result.raised) =>
        LET pages  == GoogleCalendar[call.acct.account_email]
            served == IF call.in.failAt = 0 THEN Len(pages) ELSE call.in.failAt - 1
            ids(p) == [i \in DOMAIN p |-> p[i].id]
            Got    == [i \in DOMAIN call.result.events |-> call.result.events[i].id]
            InWindow(p) == SelectSeq(p, LAMBDA it :
                               /\ it.start >= now
                               /\ it.start <= now + call.minutes)
            Expected == IF served = 0 THEN <<>>
                        ELSE IF served = 1 THEN ids(InWindow(pages[1]))
                        ELSE IF served = 2
                             THEN ids(InWindow(pages[1])) \o ids(InWindow(pages[2]))
                             ELSE ids(InWindow(pages[1])) \o ids(InWindow(pages[2]))
                                      \o ids(InWindow(pages[3]))
        IN  Got = Expected

\* a calendar of three pages, the second one empty, was fetched completely
C17_Witness ==
    /\ call.fn = "get_events"
    /\ call.acct.account_email = "c@g"
    /\ call.in.failAt = 0
    /\ ~call.result.raised
    /\ Len(call.result.events) = 3
    /\ call.result.events[1].id = "evt4"
    /\ call.result.events[3].id = "evt6"

(***************************************************************************)
(* C18.  No step of a job run removes an account or changes its owner or   *)
(* address, whatever its fetches answered, and every hour-before run tries *)
(* every account that is linked when it starts.                            *)
(***************************************************************************)
C18_Step ==
    /\ DOMAIN google_accounts' = DOMAIN google_accounts
    /\ \A a \in DOMAIN google_accounts :
           /\ google_accounts'[a].discord_user_id = google_accounts[a].discord_user_id
           /\ google_accounts'[a].account_email = google_accounts[a].account_email
           /\ google_accounts'[a].refresh_token = google_accounts[a].refresh_token
    /\ canvas_accounts' = canvas_accounts
    /\ \A t \in Tasks :
           (run[t].pc = "h_load" /\ run'[t].pc = "h_fetch") =>
               Range(run'[t].accts) = DOMAIN google_accounts

C18_AccountsStayLinked == [][C18_Step]_vars

\* an hour-before run has tried every account, each fetch raised, and
\* every account is still linked to its owner
C18_Witness ==
    \E t \in Tasks :
        /\ run[t].job = "hour_before_check"
        /\ run[t].pc = "exit"
        /\ \A a \in DOMAIN google_accounts :
               google_accounts[a].discord_user_id = "101"
        /\ DOMAIN run[t].got = DOMAIN google_accounts
        /\ \A a \in DOMAIN run[t].got : run[t].got[a].status = "raised"
        /\ \E a \in DOMAIN google_accounts :
               google_accounts[a].account_email = "a@g"

\* C19: the ledger is append-only. No step of a job run or of a link, relink,
\* unlink or view command removes or changes a committed ledger row: every
\* row is present afterwards at least as many times as before.
C19_Step ==
    \A x \in BagToSet(sent_reminders) :
        /\ BagIn(x, sent_reminders')
        /\ CopiesIn(x, sent_reminders') >= CopiesIn(x, sent_reminders)

C19_LedgerAppendOnly == [][C19_Step]_vars

\* a committed row of user 101 is still there after the Canvas account it
\* came from has been unlinked
C19_Witness ==
    /\ \E x \in BagToSet(sent_reminders) :
           x.discord_user_id = "101" /\ x.reminder_type = "announcement"
    /\ cmd[StoreCmdTask].pc = "done"
    /\ cmd[StoreCmdTask].op = "unlink_canvas"
    /\ cmd[StoreCmdTask].outcome = "unlinked"
    /\ \A c \in DOMAIN canvas_accounts :
           canvas_accounts[c].discord_user_id # "101"

\* C20: after any sequence of link, relink and unlink commands, interleaved
\* completions included, there is at most one account row per user,
\* provider kind and provider address.
C20_OneRowPerAddress ==
    /\ \A a, b \in DOMAIN google_accounts :
           /\ google_accounts[a].discord_user_id = google_accounts[b].discord_user_id
           /\ google_accounts[a].account_email = google_accounts[b].account_email
           => a = b
    /\ \A a, b \in DOMAIN canvas_accounts :
           /\ canvas_accounts[a].discord_user_id = canvas_accounts[b].discord_user_id
           /\ canvas_accounts[a].canvas_url = canvas_accounts[b].canvas_url
           => a = b

\* what a run of an interval job fetched, as (user, kind, key)
Fetched(r) ==
    IF r.job = "hour_before_check"
    THEN UNION { { Message(r.view[a].discord_user_id, "hour_before", e.id) :
                     e \in Range(r.got[a].events) } : a \in DOMAIN r.got }
    ELSE UNION { { Message(r.view[c].discord_user_id, "announcement", AnnKey(e)) :
                     e \in Range(r.got[c].events) } : c \in DOMAIN r.got }

\* every account of the run was fetched and the provider answered every
\* request of the fetch
Healthy(r) ==
    /\ r.accts # <<>>
    /\ \A a \in Range(r.accts) :
          /\ a \in DOMAIN r.got
          /\ r.got[a].status = "ok"
          /\ r.got[a].events =
                IF r.job = "hour_before_check"
                THEN get_events_starting_soon(r.view[a].account_email, 0, now, 1)
                ELSE get_announcements(r.view[a].canvas_url, TRUE,
                        now - (ANNOUNCEMENT_CHECK_INTERVAL + AnnouncementSlackMinutes))

\* C21: a reminder whose delivery failed is fetched and offered again by the
\* next scheduled run of its job, whenever that run's fetches all succeed.
C21_FailedIsOfferedAgain ==
    \A t \in Tasks :
        (run[t].pc = "exit" /\ run[t].job \in IntervalJobs /\ Healthy(run[t]))
            => run[t].retry \subseteq Fetched(run[t])

\* the look-back windows of consecutive runs leave no gap: a run whose fetch
\* succeeded has fetched every announcement posted since the run before
C22_Covered ==
    \A t \in Tasks :
        (run[t].pc = "exit" /\ run[t].job = "announcement_check" /\ Healthy(run[t]))
        => \A c \in DOMAIN run[t].got :
             \A x \in Range(Posted(run[t].view[c].canvas_url)) :
                 x.posted_at > now - ANNOUNCEMENT_CHECK_INTERVAL
                     => x \in Range(run[t].got[c].events)

\* C22: the look-back of interval + 5 minutes leaves no announcement in a gap
\* between runs, and no announcement is notified twice because consecutive
\* windows overlap.
C22_OverlapNotifiesOnce ==
    /\ C22_Covered
    /\ \A x \in Triples :
          x[2] = "announcement" => DeliveredCount(x[1], x[2], x[3]) <= 1

\* a row of this user, this kind and this key is visible to the run
HasRow(r, u, k, key) ==
    \E x \in BagToSet(Visible(r)) :
        x.discord_user_id = u /\ x.reminder_type = k /\ x.event_id = key

\* a run skips an item at its ledger check only for a row of the item's own kind
C23_Step ==
    \A t \in Tasks :
        LET r == run[t] IN
        /\ (r.pc = "h_check" /\ run'[t] = HourNextEvent(r))
              => HasRow(r, r.view[r.accts[r.ai]].discord_user_id, "hour_before",
                        r.events[r.ei].id)
        /\ (r.pc = "a_check" /\ run'[t] = AnnNextItem(r))
              => HasRow(r, r.view[r.accts[r.ai]].discord_user_id, "announcement",
                        AnnKey(r.events[r.ei]))

\* the key of an announcement row is the prefixed id, never the bare id
C23_Keys ==
    \A x \in BagToSet(sent_reminders) :
        x.reminder_type = "announcement"
            => /\ \E e \in Range(CanvasAnnouncements["https://canvas.x"]) :
                      x.event_id = "canvas_ann_" \o Str(e.id)
               /\ \A e \in Range(CanvasAnnouncements["https://canvas.x"]) :
                      x.event_id # Str(e.id)

\* C23: the dedup key spaces of different reminder kinds never interfere. A
\* ledger row of one kind never suppresses a reminder of another kind with
\* the same key string, and announcement keys carry the canvas_ann_ prefix.
C23_KindsNeverInterfere == []C23_Keys /\ [][C23_Step]_vars

\* the hour-before check has let through the event whose id is canvas_ann_8
\* while the ledger holds the announcement row with that very key
C23_Witness ==
    \E t \in Tasks :
        /\ run[t].pc = "h_send"
        /\ run[t].events[run[t].ei].id = "canvas_ann_8"
        /\ LedgerCount("101", "announcement", "canvas_ann_8") = 1
        /\ LedgerCount("101", "hour_before", "canvas_ann_8") = 0

\* a write to an account row never replaces its token or its expiry by an
\* older one (the provider numbers the tokens in the order it issues them)
C24_Step ==
    \A a \in DOMAIN google_accounts \cap DOMAIN google_accounts' :
        /\ decrypt_token(google_accounts'[a].access_token)
              >= decrypt_token(google_accounts[a].access_token)
        /\ google_accounts'[a].token_expires_at
              >= google_accounts[a].token_expires_at

\* C24: across parallel runs of different jobs and view commands that fetch
\* with the same account, a token rotation written by one task is never
\* overwritten by an older token or expiry held by another task.
C24_RotationNeverRolledBack == [][C24_Step]_vars

\* C25: every external call inside a job run is a suspension point. While a
\* token refresh is in progress for one account, the scheduler can still
\* start another job, or another task can take its next step.
C25_RefreshNeverBlocks ==
    \A t \in Tasks :
        (Blocked /\ call.task = t /\ runs < MaxRuns)
            => ENABLED (\E s \in Tasks \ {t} : LoopTurn(s))

\* C26: within one user's daily summary the calendar items are rendered in
\* ascending order of their start time, for every merged list of items from
\* that user's accounts, all-day dates and timed starts mixed.
C26_RenderedInStartOrder ==
    call.fn = "render_daily_summary_embed" =>
        \A i, j \in DOMAIN call.lines :
            i < j => Instant(call.lines[i].date) <= Instant(call.lines[j].date)

\* the pending-authorization entries of a user
PendingOf(u) ==
    { st \in DOMAIN pending_oauth_states : pending_oauth_states[st] = u }

\* a callback that links an account had a pending entry of its user and
\* removes exactly that one entry
C27_Step ==
    \A c \in CmdTasks :
        (/\ cmd[c].op = "google_callback"
         /\ cmd[c].pc = "commit"
         /\ cmd'[c].pc = "done"
         /\ cmd'[c].outcome = "linked")
        => /\ PendingOf(cmd[c].user) # {}
           /\ \E st \in PendingOf(cmd[c].user) :
                 pending_oauth_states' =
                     [x \in DOMAIN pending_oauth_states \ {st} |->
                          pending_oauth_states[x]]

\* C27: a pending-authorization entry is created when a user starts linking,
\* is consumed exactly once by the callback that completes the link, and a
\* callback with no matching pending entry does not link an account.
C27_PendingConsumedOnce == [][C27_Step]_vars

\* what an hour-before run holds uncommitted (the rotated tokens and the rows
\* of the items it delivered) stays in its session, or is stored whole by one
\* commit, or is dropped whole
C28_Step ==
    \A t \in Tasks :
        LET r == run[t] IN
        (/\ r.job = "hour_before_check"
         /\ run'[t] # r
         /\ r.pending # {} \/ r.dirty # {})
        => \/ /\ r.pending \subseteq run'[t].pending
              /\ r.dirty \subseteq run'[t].dirty
              /\ UNCHANGED <<sent_reminders, google_accounts>>
           \/ /\ sent_reminders' = sent_reminders (+) SetToBag(r.pending)
              /\ \A a \in r.dirty :
                    /\ google_accounts'[a].access_token = r.view[a].access_token
                    /\ google_accounts'[a].token_expires_at = r.view[a].token_expires_at
              /\ run'[t].pending = {}
              /\ run'[t].dirty = {}
           \/ /\ UNCHANGED <<sent_reminders, google_accounts>>
              /\ run'[t].pending = {}
              /\ run'[t].dirty = {}

\* C28: for one account in an hour-before run the rotated token and the
\* ledger rows of the items delivered for it are persisted together by a
\* single commit: either the rotation and every row are stored, or none.
C28_RotationAndRowsTogether == [][C28_Step]_vars

\* an hour-before run has stored the rotated token of a@g together with the
\* rows of both events delivered for it
C28_Witness ==
    /\ runs = 1
    /\ \E t \in Tasks : run[t].job = "hour_before_check" /\ run[t].pc = "exit"
    /\ \E a \in DOMAIN google_accounts :
          /\ google_accounts[a].account_email = "a@g"
          /\ google_accounts[a].access_token = encrypt_token(1)
    /\ LedgerCount("101", "hour_before", "evt1") = 1
    /\ LedgerCount("101", "hour_before", "evt2") = 1

\* the provider was unavailable during the fetch of account a of run r: the
\* fetch raised, or a page request was not answered with success
Unavailable(r, a) ==
    \/ r.got[a].status = "raised"
    \/ r.got[a].events #
           get_events_starting_soon(r.view[a].account_email, 0, now, 1)

\* C29: when the provider is unavailable for an account during a fetch, on
\* the first page or on a later one, the run writes no ledger entry sourced
\* from that account's fetch, and goes on to the next account.
C29_NoRowFromFailedFetch ==
    \A t \in Tasks :
        LET r == run[t] IN
        (runs = 1 /\ r.job = "hour_before_check")
        => \A a \in DOMAIN r.got :
              Unavailable(r, a)
              => \A e \in Range(r.got[a].events) :
                    /\ LedgerCount(r.view[a].discord_user_id, "hour_before", e.id) = 0
                    /\ \A x \in r.pending : x.event_id # e.id

\* a row of kind hour_before carries the provider id and the start of one item
\* of the calendar of address email
NamesItem(x, email) ==
    \E p \in DOMAIN GoogleCalendar[email] :
        \E i \in DOMAIN GoogleCalendar[email][p] :
            /\ x.event_id = GoogleCalendar[email][p][i].id
            /\ x.scheduled_time = GoogleCalendar[email][p][i].start

\* rows added to the session of task t by the step
C30_Added(t) == run'[t].pending \ run[t].pending

C30_Step ==
    \A t \in Tasks :
        \A x \in C30_Added(t) :
            /\ run[t].job = "hour_before_check"
               => /\ x.reminder_type = "hour_before"
                  /\ NamesItem(x, run[t].view[run[t].accts[run[t].ai]].account_email)
                  /\ delivered' = delivered (+) SetToBag(
                        {[user |-> x.discord_user_id, kind |-> "hour_before",
                          key |-> x.event_id, day |-> today]})
            /\ run[t].job = "daily_summary"
               => /\ x.reminder_type = "daily_summary"
                  /\ x.event_id = "2024-01-" \o Str(10 + today)
                  /\ delivered' = delivered (+) SetToBag(
                        {[user |-> x.discord_user_id, kind |-> "daily_summary",
                          key |-> x.event_id, day |-> today]})

C30_Rows ==
    \A x \in BagToSet(sent_reminders) :
        /\ x.reminder_type = "hour_before"
           => \E email \in DOMAIN GoogleCalendar : NamesItem(x, email)
        /\ x.reminder_type = "daily_summary"
           => \E e \in BagToSet(delivered) :
                 /\ e.kind = "daily_summary"
                 /\ e.user = x.discord_user_id
                 /\ e.key = x.event_id
                 /\ x.event_id = "2024-01-" \o Str(10 + e.day)

\* C30: every ledger entry written by the hour-before job has kind hour_before,
\* as dedup key the provider id of the delivered item and as scheduled time
\* that item's own start; every entry written by the daily-summary job has as
\* dedup key the calendar date of the day on which the summary was delivered.
C30_RowsNameWhatWasDelivered == []C30_Rows /\ [][C30_Step]_vars

C30_Witness ==
    /\ today = 1
    /\ LedgerCount("101", "daily_summary", "2024-01-11") = 1
    /\ \E x \in BagToSet(sent_reminders) :
          /\ x.discord_user_id = "101"
          /\ x.reminder_type = "hour_before"
          /\ x.event_id = "evt1"
          /\ x.scheduled_time = 140

\* the link handlers
LinkOps == {"google_callback", "link_canvas"}

\* the handler of command task c ends in this step with the given outcome
Ends(c, outcome) ==
    /\ cmd[c].pc \notin {"idle", "done"}
    /\ cmd'[c].pc = "done"
    /\ cmd'[c].outcome = outcome

C31_Step ==
    /\ users \subseteq users'
    /\ users' # users
       => \E c \in CmdTasks :
             /\ cmd[c].op \in LinkOps
             /\ Ends(c, "linked")
             /\ users' = users \cup {cmd[c].user}
    /\ \A c \in CmdTasks :
          /\ (cmd[c].op \in LinkOps /\ Ends(c, "failed"))
             => UNCHANGED <<users, google_accounts, canvas_accounts, sent_reminders>>
          /\ (cmd[c].op \in LinkOps /\ Ends(c, "linked"))
             => cmd[c].user \in users'

\* every account row belongs to a User row
C31_Owned ==
    /\ \A a \in DOMAIN google_accounts : google_accounts[a].discord_user_id \in users
    /\ \A a \in DOMAIN canvas_accounts : canvas_accounts[a].discord_user_id \in users

\* C31: a User row is created only by a link that succeeds; a link attempt
\* that fails leaves the User, Account and Ledger stores unchanged; after a
\* successful link the owning User row exists, and no unlink removes a User row.
C31_UserCreatedByLinkOnly == []C31_Owned /\ [][C31_Step]_vars

\* user 103 was created by a link of e@g and stays after unlinking e@g
C31_Witness ==
    /\ "103" \in users
    /\ FindGoogle("103", "e@g") = {}
    /\ \E c \in CmdTasks :
          /\ cmd[c].pc = "done"
          /\ cmd[c].op = "unlink_google"
          /\ cmd[c].user = "103"
          /\ cmd[c].outcome = "unlinked"

\* C32: every job run returns to idle: with finitely many users, accounts,
\* items and pages, and external calls that each return or raise, each of the
\* three job bodies terminates whatever fetches and deliveries fail.
C32_EveryRunEnds ==
    \A t \in Tasks : \A job \in Jobs :
        (Running(t) /\ run[t].job = job)
            ~> (run[t].pc \in {"done", "failed"} /\ run[t].job = job)

\* an hour-before run reaches the end of its loop after a fetch that raised
\* and a delivery that failed
C32_Witness ==
    \E t \in Tasks :
        /\ run[t].job = "hour_before_check"
        /\ run[t].pc = "exit"
        /\ \E a \in DOMAIN run[t].got : run[t].got[a].status = "raised"
        /\ run[t].sendFail # {}

\* the kind and the dedup keys of the items run r fetched for the account it
\* is processing
ItemKind(r) == IF r.job = "hour_before_check" THEN "hour_before" ELSE "announcement"

ItemKeys(r) ==
    IF r.job = "hour_before_check"
    THEN { r.events[i].id : i \in DOMAIN r.events }
    ELSE { AnnKey(r.events[i]) : i \in DOMAIN r.events }

\* the delivery of the item with this key failed in run r
SendFailed(r, u, key) ==
    [user |-> u, kind |-> ItemKind(r), key |-> key] \in r.sendFail

\* C33: when the loop over the items of an account of an hour-before or
\* announcement run is through, every fetched item whose delivery did not
\* fail has a ledger entry (stored before, or added by this run after its
\* delivery), and an item whose delivery failed has none.
C33_FailedDeliveryIsolated ==
    \A t \in Tasks :
        LET r == run[t] IN
        (r.pc \in {"h_commit", "a_commit"})
        => LET u == r.view[r.accts[r.ai]].discord_user_id IN
           \A key \in ItemKeys(r) :
              /\ SendFailed(r, u, key) => CountRows(r, u, ItemKind(r), key) = 0
              /\ ~SendFailed(r, u, key) => CountRows(r, u, ItemKind(r), key) >= 1
              /\ (\E x \in r.pending : /\ x.discord_user_id = u
                                       /\ x.reminder_type = ItemKind(r)
                                       /\ x.event_id = key)
                 => DeliveredCount(u, ItemKind(r), key) >= 1

\* the delivery of evt1 failed, evt2 of the same account was then delivered
\* and recorded
C33_Witness ==
    \E t \in Tasks :
        LET r == run[t] IN
        /\ r.pc = "h_commit"
        /\ SendFailed(r, "101", "evt1")
        /\ \E x \in r.pending : x.event_id = "evt2" /\ x.reminder_type = "hour_before"
        /\ DeliveredCount("101", "hour_before", "evt2") = 1
        /\ DeliveredCount("101", "hour_before", "evt1") = 0

C35_Step ==
    \A t \in Tasks :
        LET r == run[t] IN
        /\ (r.pc = "h_check" /\ run'[t] = HourNextEvent(r))
              => \E x \in BagToSet(Visible(r)) :
                    /\ x.discord_user_id = r.view[r.accts[r.ai]].discord_user_id
                    /\ x.reminder_type = "hour_before"
                    /\ x.event_id = r.events[r.ei].id
        /\ (r.pc = "d_check" /\ run'[t] = DailyNextUser([r EXCEPT !.today = today]))
              => \E x \in BagToSet(Visible(r)) :
                    /\ x.discord_user_id = r.users[r.ui]
                    /\ x.reminder_type = "daily_summary"
                    /\ x.event_id = "2024-01-" \o Str(10 + today)

\* C35: deduplication is per user. A ledger entry of one user for a kind and
\* key never suppresses the delivery to another user of a reminder with the
\* same kind and key.
C35_DedupIsPerUser == [][C35_Step]_vars

\* both users were reminded of evt10 and sent their summary of the same day,
\* and the ledger holds each user's own rows
C35_Witness ==
    \A u \in {"101", "102"} :
        /\ DeliveredCount(u, "hour_before", "evt10") = 1
        /\ LedgerCount(u, "hour_before", "evt10") = 1
        /\ DeliveredCount(u, "daily_summary", "2024-01-10") = 1
        /\ LedgerCount(u, "daily_summary", "2024-01-10") = 1

\* a run that has made its select works with accounts that are linked
C36_LinkedOnly ==
    \A t \in Tasks :
        LET r == run[t] IN
        (r.job = "hour_before_check" /\ r.pc \in {"h_fetch", "h_check", "h_send", "h_commit"})
        => \A i \in DOMAIN r.accts :
              /\ r.accts[i] \in DOMAIN google_accounts
              /\ r.view[r.accts[i]].account_email
                    = google_accounts[r.accts[i]].account_email
              /\ r.view[r.accts[i]].discord_user_id
                    = google_accounts[r.accts[i]].discord_user_id

C36_Step ==
    /\ \A c \in CmdTasks :
          (cmd[c].op = "unlink_google" /\ Ends(c, "unlinked"))
          => \A a \in DOMAIN google_accounts' :
                ~ (/\ google_accounts'[a].discord_user_id = cmd[c].user
                   /\ google_accounts'[a].account_email = cmd[c].addr)
    /\ cmd' # cmd => sent_reminders' = sent_reminders
    /\ \A e \in BagToSet(delivered') :
          CopiesIn(e, delivered') > CopiesIn(e, delivered)
          => /\ LedgerCount(e.user, e.kind, e.key) = 0
             /\ \E t \in Tasks : \E ev \in Range(run[t].events) :
                   /\ ev.id = e.key
                   /\ run[t].view[run[t].accts[run[t].ai]].discord_user_id = e.user

\* C36: after an account was unlinked and the unlink committed, no job run
\* that starts afterwards fetches with it or delivers a reminder sourced from
\* it; linking the same address again never makes an item already recorded
\* in the user's ledger be notified a second time.
C36_UnlinkedStaysOut == []C36_LinkedOnly /\ [][C36_Step]_vars

\* a@g was unlinked and linked again (its row is a new one) after evt1 was
\* recorded, and a second run has gone through the relinked account's events
\* without a second reminder for evt1
C36_Witness ==
    /\ runs = 1
    /\ cmds = 2
    /\ \E a \in FindGoogle("101", "a@g") : a # 1
    /\ LedgerCount("101", "hour_before", "evt1") = 1
    /\ DeliveredCount("101", "hour_before", "evt1") = 1
    /\ \E t \in Tasks :
          /\ run[t].pc = "h_commit"
          /\ run[t].view[run[t].accts[run[t].ai]].account_email = "a@g"
          /\ \E ev \in Range(run[t].events) : ev.id = "evt1"

\* the daily-summary rows of user u the session of run r sees
SummaryKeys(r, u) ==
    { x.event_id : x \in { y \in BagToSet(Visible(r)) :
                              /\ y.discord_user_id = u
                              /\ y.reminder_type = "daily_summary" } }

C37_Step ==
    \A t \in Tasks :
        LET r == run[t] IN
        /\ (r.pc = "d_check" /\ run'[t] = DailyNextUser([r EXCEPT !.today = today]))
              => ("2024-01-" \o Str(10 + today)) \in SummaryKeys(r, r.users[r.ui])
        /\ (r.pc = "d_send" /\ run'[t].pc = "d_commit")
              => /\ ("2024-01-" \o Str(10 + today)) \notin SummaryKeys(r, r.users[r.ui])
                 /\ DeliveredIn(delivered', r.users[r.ui], "daily_summary",
                                "2024-01-" \o Str(10 + today))
                       = DeliveredIn(delivered, r.users[r.ui], "daily_summary",
                                     "2024-01-" \o Str(10 + today)) + 1

\* C37: a daily-summary ledger entry only suppresses summaries of its own
\* calendar day. On a later day the check lets the user through whatever
\* entries of earlier days the ledger holds, and a user with an upcoming item
\* and a reachable inbox is sent a new summary.
C37_OnlyTodaysEntrySuppresses == [][C37_Step]_vars

\* the summary of the second day was delivered and recorded while the ledger
\* held the entry of the first day
C37_Witness ==
    /\ today = 1
    /\ LedgerCount("101", "daily_summary", "2024-01-10") = 1
    /\ LedgerCount("101", "daily_summary", "2024-01-11") = 1
    /\ DeliveredCount("101", "daily_summary", "2024-01-10") = 1
    /\ DeliveredCount("101", "daily_summary", "2024-01-11") = 1

=============================================================================
